---- MODULE Spec2Model ----
(***************************************************************************)
(* BookQuest client: the auth session holder (AuthProvider), the login and *)
(* signup forms, the request middleware, the search screen (Home), the     *)
(* browse screen (BrowseContent) and the Favorites screen, modelled as     *)
(* state machines over the browser's cookie jar, local storage and the     *)
(* components' React state.  Requests in flight are explicit: a handler    *)
(* runs up to its await, and the continuation runs when the response is    *)
(* delivered.                                                              *)
(***************************************************************************)
EXTENDS Integers, Sequences, FiniteSets, TLC

VARIABLES
    \* ---- browser ----
    cookie,          \* value of the auth_token cookie, NULL when absent
    ls_auth_user,    \* localStorage 'auth_user' (a JSON text), NULL when absent
    ls_auth_token,   \* localStorage 'auth_token', NULL when absent
    location,        \* [path, redirectTo]: the page shown and its redirectTo query parameter
    \* ---- AuthProvider ----
    authVariant,     \* which of the repository's AuthProvider sources is built
    user, token, auth_loading,
    authPc,          \* position of initAuth: start | verifying | done | rejected
    verifyReq,       \* GET /api/auth/verify in flight
    \* ---- Login page ----
    login_loading, login_error, loginReq,
    \* ---- Signup page ----
    formData, signup_loading, signup_error, signupReq,
    \* ---- middleware ----
    mwVariant,       \* which of the repository's middleware sources is built
    mwRequest, mwResponse,
    \* ---- screens: Home (search), BrowseContent, Favorites ----
    homeVariant,     \* which of the repository's Home sources is built
    favorites,       \* the mounted screen's favorites state
    favReq,          \* its GET /api/favorites in flight
    toggleReqs,      \* its POST / DELETE /api/favorites in flight, oldest first
    clearReq,        \* Favorites.clearAllFavorites: its loop and the DELETE it awaits
    home_error,      \* Home.error
    fav_loading,     \* Favorites.loading
    crashed,         \* an exception escaped a render or an effect
    healthReq,       \* Home's GET /api/health: none | sent | done
    genresReq,       \* Home's GET /api/genres and /api/authors: none | sent | done
    availableGenres,
    \* ---- Home: search ----
    query, searchMode, filters, books, home_loading,
    searchHistory, ls_recentSearches,
    searchReqs,      \* recommendation requests in flight, oldest first
    \* ---- Home: deep link, authors, preferences ----
    autoSearch,          \* the ?search= parameter whose timer is pending, or NoParam
    availableAuthors,
    userPreferences, ls_userPreferences,
    \* ---- book detail modal ----
    selectedBook, bookDetails, userRating, modalLoading,
    detailsReqs,         \* GET /api/book/<title> requests in flight, oldest first
    detailsTitle,        \* the book whose response bookDetails holds, NULL when none
    rateReqs,            \* POST /api/rate requests in flight, oldest first
    imageSrc, imageError,
    imageLoad,           \* the modal's <img> is loading the source it was given
    imageTried,          \* the sources the <img> has been given since the modal opened
    \* ---- BrowseContent ----
    popularBooks, randomBooks, browse_filteredBooks, selectedGenre, browse_loading,
    booksReq,            \* fetchBooks' Promise.all: none | sent | done
    browse_availableGenres, browseGenresReq,
    genreBooksReqs,      \* fetchBooksByGenre requests in flight, oldest first
    \* ---- history ----
    last,            \* the handler that ran last and what it sent and consumed
    issuedToken      \* token issued by the most recent successful login or signup

authVars   == <<authVariant, user, token, auth_loading, authPc, verifyReq>>
storeVars  == <<cookie, ls_auth_user, ls_auth_token>>
loginVars  == <<login_loading, login_error, loginReq>>
signupVars == <<formData, signup_loading, signup_error, signupReq>>
mwVars     == <<mwVariant, mwRequest, mwResponse>>
favVars    == <<favorites, favReq, toggleReqs, home_error, fav_loading, crashed,
                healthReq, genresReq, availableGenres>>
searchVars == <<query, searchMode, filters, books, home_loading, searchHistory,
                ls_recentSearches, searchReqs>>
screenVars == <<homeVariant, favVars, searchVars>>
modalVars  == <<selectedBook, bookDetails, detailsReqs, detailsTitle, modalLoading,
                userRating, rateReqs>>
imageVars  == <<imageSrc, imageError, imageLoad, imageTried>>
browseVars == <<popularBooks, randomBooks, browse_filteredBooks, selectedGenre, browse_loading,
                booksReq, browse_availableGenres, browseGenresReq, genreBooksReqs>>
extVars    == <<autoSearch, availableAuthors, userPreferences, modalVars, imageVars,
                browseVars, clearReq>>

vars == <<cookie, ls_auth_user, ls_auth_token, location,
          authVariant, user, token, auth_loading, authPc, verifyReq,
          login_loading, login_error, loginReq,
          formData, signup_loading, signup_error, signupReq,
          mwVariant, mwRequest, mwResponse,
          homeVariant, favorites, favReq, toggleReqs, home_error, fav_loading, crashed,
          healthReq, genresReq, availableGenres,
          query, searchMode, filters, books, home_loading, searchHistory,
          ls_recentSearches, searchReqs,
          autoSearch, availableAuthors, userPreferences, ls_userPreferences,
          selectedBook, bookDetails, detailsReqs, detailsTitle, modalLoading, userRating,
          rateReqs, clearReq,
          imageSrc, imageError, imageLoad, imageTried,
          popularBooks, randomBooks, browse_filteredBooks, selectedGenre, browse_loading,
          booksReq, browse_availableGenres, browseGenresReq, genreBooksReqs,
          last, issuedToken>>

NULL == "null"

\* A request to a bearer-protected endpoint; none
ProtectedReq(method, endpoint, bearer) ==
    [method |-> method, endpoint |-> endpoint, bearer |-> bearer]
NoProtectedReq == ProtectedReq(NULL, NULL, NULL)

\* The handler that ran last: its name, the request it sent to a bearer-protected
\* endpoint, and the search request and answer it consumed
Ran(op) == [op |-> op, sent |-> NoProtectedReq, req |-> NULL, answer |-> NULL]
RanSending(op, request) == [Ran(op) EXCEPT !.sent = request]

\* JavaScript truthiness of a string-or-null value
Truthy(v) == v # NULL /\ v # ""

\* a || b
OrElse(a, b) == IF Truthy(a) THEN a ELSE b

-----------------------------------------------------------------------------
(* Values *)

Tokens == {"t1", "t2"}          \* tokens the backend issues
StoredTokens == {NULL, "", "t0"} \* auth_token cookie found at first page load
Users == {"u1"}                 \* user objects the backend returns

JSONstringify(u) == <<"json", u>>
Malformed == <<"text", "{oops">>
JSONparseThrows(s) == s[1] # "json"
JSONparse(s) == s[2]

StoredUsers == {NULL, Malformed, JSONstringify("u0")}

\* Paths, as sequences of characters
P_root      == <<"/">>
P_browse    == <<"/","b","r","o","w","s","e">>
P_browseSub == P_browse \o <<"/","x">>
P_browsers  == P_browse \o <<"r","s">>
P_brows     == <<"/","b","r","o","w","s">>
P_favorites == <<"/","f","a","v","o","r","i","t","e","s">>
P_profile   == <<"/","p","r","o","f","i","l","e">>
P_profileEd == P_profile \o <<"/","e","d","i","t">>
P_login     == <<"/","l","o","g","i","n">>
P_loginSub  == P_login \o <<"/","x">>
P_signup    == <<"/","s","i","g","n","u","p">>
P_about     == <<"/","a","b","o","u","t">>
P_api       == <<"/","a","p","i">>
P_apiFav    == P_api \o P_favorites

Paths == {P_root, P_browse, P_browseSub, P_browsers, P_brows, P_favorites,
          P_profile, P_profileEd, P_login, P_loginSub, P_signup, P_about, P_apiFav}

\* String.prototype.startsWith
StartsWith(s, prefix) ==
    /\ Len(prefix) <= Len(s)
    /\ SubSeq(s, 1, Len(prefix)) = prefix

-----------------------------------------------------------------------------
(* Cookie helpers of AuthContext: the jar holds one cookie, auth_token *)

CookieDays == 7
setCookie(value, days) == value
getCookie(jar) == jar
deleteCookie == NULL

-----------------------------------------------------------------------------
(* middleware *)

protectedPaths == {P_browse, P_favorites, P_profile}
\* (variant) a list of auth paths that overlaps the protected ones
authPathsWithBrowse == {P_login, P_signup, P_browse}
authPaths == {P_login, P_signup}

\* config.matcher: '/((?!api|_next/static|_next/image|favicon.ico|public).*)'
matcherExcluded == {<<"a","p","i">>,
                    <<"_","n","e","x","t","/","s","t","a","t","i","c">>,
                    <<"_","n","e","x","t","/","i","m","a","g","e">>,
                    <<"f","a","v","i","c","o","n",".","i","c","o">>,
                    <<"p","u","b","l","i","c">>}
matcher(pathname) ==
    /\ Len(pathname) >= 1
    /\ pathname[1] = "/"
    /\ \A x \in matcherExcluded : ~StartsWith(Tail(pathname), x)

\* (variant) exact match instead of startsWith
isProtectedPathExact(pathname) == pathname \in protectedPaths

isProtectedPath(pathname) == \E path \in protectedPaths : StartsWith(pathname, path)
isAuthPath(pathname) == \E path \in authPaths : StartsWith(pathname, path)

MwVariants == {"basic",      \* middleware.ts
               "hardened"}   \* the middleware that adds security headers inside try/catch

\* NextResponse.redirect(url) with url.searchParams.set('redirectTo', ...) when given
Redirect(to, redirectTo) ==
    [kind |-> "redirect", to |-> to, redirectTo |-> redirectTo, secured |-> FALSE]
\* NextResponse.next(), with the security headers when secured
PassThrough(secured) ==
    [kind |-> "next", to |-> NULL, redirectTo |-> NULL, secured |-> secured]

\* (variant) a middleware that leaves the auth pages open to everyone
middlewareAuthPagesOpen(variant, pathname, tokenCookie) ==
    IF isProtectedPath(pathname) /\ ~Truthy(tokenCookie)
      THEN Redirect(P_login, pathname)
    ELSE PassThrough(variant = "hardened")

\* request.cookies.get('auth_token')?.value is undefined when the cookie is absent
middleware(variant, pathname, tokenCookie) ==
    IF isAuthPath(pathname) /\ Truthy(tokenCookie)
      THEN Redirect(P_browse, NULL)
    ELSE IF isProtectedPath(pathname) /\ ~Truthy(tokenCookie)
      THEN Redirect(P_login, pathname)
    ELSE PassThrough(variant = "hardened")

\* The response to a request for pathname: the middleware runs only for the
\* paths config.matcher selects.
Serve(variant, pathname, tokenCookie) ==
    IF ~matcher(pathname) THEN PassThrough(FALSE)
    ELSE middleware(variant, pathname, tokenCookie)

MaxRedirects == 3

\* The page the browser ends on, following redirects: [path, redirectTo]
RECURSIVE Follow(_, _, _, _, _)
Follow(variant, pathname, redirectTo, tokenCookie, fuel) ==
    LET r == Serve(variant, pathname, tokenCookie) IN
    IF r.kind = "redirect" /\ fuel > 0
      THEN Follow(variant, r.to, r.redirectTo, tokenCookie, fuel - 1)
      ELSE [path |-> pathname, redirectTo |-> redirectTo]

Land(variant, pathname, tokenCookie) ==
    Follow(variant, pathname, NULL, tokenCookie, MaxRedirects)

-----------------------------------------------------------------------------
(* AuthProvider *)

AuthVariants == {"tryFinally",   \* contexts/AuthContext.tsx: try / catch (log) / finally
                 "plain",        \* the provider without try/finally
                 "cleanup"}      \* the provider whose catch clears the stored session

isAuthenticated == user # NULL /\ Truthy(token)

\* A request slot: state none | sent | answered | handled; ctx is what the
\* issuing closure captured
NoReq == [state |-> "none", bearer |-> NULL, status |-> NULL, body |-> NULL, ctx |-> NULL]
Sent(bearer, ctx) ==
    [state |-> "sent", bearer |-> bearer, status |-> NULL, body |-> NULL, ctx |-> ctx]
Handled(req, status, body) ==
    [req EXCEPT !.state = "handled", !.status = status, !.body = body]

\* logout(): the four effects, as [token, user, cookie, ls_auth_user]
logout == [token |-> NULL, user |-> NULL, cookie |-> deleteCookie, ls_auth_user |-> NULL]

\* useEffect(() => { initAuth() }, []) up to its first await
InitAuth ==
    /\ UNCHANGED <<extVars, ls_userPreferences>>
    /\ authPc = "start"
    /\ LET storedToken == getCookie(cookie)
           storedUser == ls_auth_user
       IN
       IF Truthy(storedToken) /\ storedUser # NULL
       THEN IF JSONparseThrows(storedUser)
            THEN \* setToken ran, JSON.parse threw
                 CASE authVariant = "tryFinally" ->
                        /\ token' = storedToken
                        /\ auth_loading' = FALSE
                        /\ authPc' = "done"
                        /\ UNCHANGED <<user, cookie, ls_auth_user>>
                   [] authVariant = "plain" ->
                        /\ token' = storedToken
                        /\ authPc' = "rejected"
                        /\ UNCHANGED <<user, auth_loading, cookie, ls_auth_user>>
                   [] authVariant = "cleanup" ->
                        /\ ls_auth_user' = NULL
                        /\ cookie' = deleteCookie
                        /\ token' = NULL
                        /\ user' = NULL
                        /\ auth_loading' = FALSE
                        /\ authPc' = "done"
            ELSE /\ token' = storedToken
                 /\ user' = JSONparse(storedUser)
                 /\ verifyReq' = Sent(storedToken, NULL)
                 /\ authPc' = "verifying"
                 /\ UNCHANGED <<auth_loading, cookie, ls_auth_user>>
       ELSE /\ auth_loading' = FALSE
            /\ authPc' = "done"
            /\ UNCHANGED <<user, token, cookie, ls_auth_user>>
    /\ IF authPc' = "verifying" THEN TRUE ELSE UNCHANGED verifyReq
    /\ last' = Ran("InitAuth")
    /\ UNCHANGED <<authVariant, ls_auth_token, location, loginVars, signupVars,
                   mwVars, issuedToken, screenVars>>

\* The backend (or the network) answers GET /api/auth/verify
VerifyRespond ==
    /\ UNCHANGED <<extVars, ls_userPreferences>>
    /\ verifyReq.state = "sent"
    /\ \E r \in [status : {"ok"}, body : Users]
              \cup [status : {"nonok", "throws"}, body : {NULL}] :
          verifyReq' = [verifyReq EXCEPT !.state = "answered",
                                         !.status = r.status, !.body = r.body]
    /\ last' = Ran("VerifyRespond")
    /\ UNCHANGED <<authVariant, user, token, auth_loading, authPc, storeVars,
                   location, loginVars, signupVars, mwVars, issuedToken, screenVars>>

\* (variant) a catch that only logs: a rejected fetch keeps the session
verifyTokenEffectSwallow(status, body) ==
    IF status = "nonok" THEN logout
    ELSE [token |-> token,
          user |-> IF status = "ok" THEN body ELSE user,
          cookie |-> cookie, ls_auth_user |-> ls_auth_user]

\* What verifyToken's continuation does with the answer
verifyTokenEffect(status, body) ==
    IF status = "ok"
    THEN [token |-> token, user |-> body, cookie |-> cookie, ls_auth_user |-> ls_auth_user]
    ELSE logout

\* verifyToken's continuation, then the rest of initAuth (setLoading(false))
VerifyHandle ==
    /\ UNCHANGED <<extVars, ls_userPreferences>>
    /\ verifyReq.state = "answered"
    /\ authPc = "verifying"
    /\ LET e == verifyTokenEffect(verifyReq.status, verifyReq.body) IN
       /\ token' = e.token
       /\ user' = e.user
       /\ cookie' = e.cookie
       /\ ls_auth_user' = e.ls_auth_user
    /\ auth_loading' = FALSE
    /\ authPc' = "done"
    /\ verifyReq' = [verifyReq EXCEPT !.state = "handled"]
    /\ last' = Ran("VerifyHandle")
    /\ UNCHANGED <<authVariant, ls_auth_token, location, loginVars, signupVars,
                   mwVars, issuedToken, screenVars>>

\* Navbar: the logout button, shown once loading is over and the session is authenticated
Logout ==
    /\ UNCHANGED <<extVars, ls_userPreferences>>
    /\ authPc # "start"
    /\ ~auth_loading
    /\ isAuthenticated
    /\ token' = logout.token
    /\ user' = logout.user
    /\ cookie' = logout.cookie
    /\ ls_auth_user' = logout.ls_auth_user
    /\ last' = Ran("Logout")
    /\ UNCHANGED <<authVariant, auth_loading, authPc, verifyReq, ls_auth_token,
                   location, loginVars, signupVars, mwVars, issuedToken, screenVars>>

\* (variant) the cookie write is left out
authPostNoCookie(status, body, fallback) ==
    IF status = "ok"
    THEN [threw |-> FALSE, message |-> NULL,
          token |-> body.token, user |-> body.user,
          cookie |-> cookie,
          ls_auth_user |-> JSONstringify(body.user)]
    ELSE [threw |-> TRUE, message |-> IF status = "throws" THEN body
                                      ELSE OrElse(body, fallback),
          token |-> token, user |-> user, cookie |-> cookie,
          ls_auth_user |-> ls_auth_user]

\* (variant) the backend's error text is dropped
authPostGenericMessage(status, body, fallback) ==
    IF status = "ok"
    THEN [threw |-> FALSE, message |-> NULL,
          token |-> body.token, user |-> body.user,
          cookie |-> setCookie(body.token, CookieDays),
          ls_auth_user |-> JSONstringify(body.user)]
    ELSE [threw |-> TRUE, message |-> fallback,
          token |-> token, user |-> user, cookie |-> cookie,
          ls_auth_user |-> ls_auth_user]

\* login() / signup() of AuthProvider after `const data = await response.json()`:
\* [threw, message] and the session [token, user, cookie, ls_auth_user]
authPost(status, body, fallback) ==
    CASE status = "throws" ->   \* fetch rejected: body is the exception's message
           [threw |-> TRUE, message |-> body,
            token |-> token, user |-> user, cookie |-> cookie,
            ls_auth_user |-> ls_auth_user]
      [] status = "nonok" ->    \* throw new Error(data.error || fallback)
           [threw |-> TRUE, message |-> OrElse(body, fallback),
            token |-> token, user |-> user, cookie |-> cookie,
            ls_auth_user |-> ls_auth_user]
      [] status = "ok" ->
           [threw |-> FALSE, message |-> NULL,
            token |-> body.token, user |-> body.user,
            cookie |-> setCookie(body.token, CookieDays),
            ls_auth_user |-> JSONstringify(body.user)]

\* Answers of POST /api/auth/login and /api/auth/signup: OK with {token, user},
\* not OK with {error} (absent, empty or a text), or a rejected fetch
ErrorTexts == {NULL, "", "Invalid credentials"}
FetchRejected == "Failed to fetch"
AuthAnswers ==
    [status : {"ok"}, body : [token : Tokens, user : Users]]
    \cup [status : {"nonok"}, body : ErrorTexts]
    \cup [status : {"throws"}, body : {FetchRejected}]

-----------------------------------------------------------------------------
(* Screens: what they share *)

HomeVariants == {"frontend",   \* frontend/src/components/Home.tsx
                 "app"}        \* bookquest-app/src/components/Home.tsx

\* Book: title, author, rating, genre (<<>> when the book has none); the
\* strings searched by substring are sequences of characters
B_dune == [title |-> "Dune", author |-> <<"H","e","r","b","e","r","t">>,
           rating |-> 8, genre |-> <<"S","c","i","F","i">>]
B_emma == [title |-> "Emma", author |-> <<"A","u","s","t","e","n">>,
           rating |-> 4, genre |-> <<>>]
\* The same title as another result shows it, with a different rating
B_dune_rerated == [B_dune EXCEPT !.rating = 9]
Books == {B_dune, B_emma, B_dune_rerated}

\* Absent values of the search screen's state
NoParam == <<>>
NoBook == [title |-> NULL, image |-> NULL]
\* bookDetails.imageLinks: the object's fields in the order Object.values lists
\* them, or no such object
Links(fields) == [present |-> TRUE, fields |-> fields]
NoLinks == [present |-> FALSE, fields |-> <<>>]
Details(imageLinks) == [loaded |-> TRUE, imageLinks |-> imageLinks]
NoDetails == [loaded |-> FALSE, imageLinks |-> NoLinks]
NoPreferences == <<>>
\* clearAllFavorites is not running
NoClear == [state |-> "none", snapshot |-> <<>>, next |-> 0, issued |-> <<>>]

\* A JavaScript value held where an array is expected
Arr(items) == [kind |-> "array", items |-> items]
NonArr(kind) == [kind |-> kind, items |-> <<>>]
isArray(v) == v.kind = "array"

\* array.some(fav => fav.title === title)
someTitle(items, title) == \E i \in 1..Len(items) : items[i].title = title
\* array.filter(fav => fav.title !== title)
RECURSIVE withoutTitle(_, _)
withoutTitle(items, title) ==
    IF items = <<>> THEN <<>>
    ELSE IF Head(items).title # title
         THEN <<Head(items)>> \o withoutTitle(Tail(items), title)
         ELSE withoutTitle(Tail(items), title)

\* The screen a path mounts
ScreenAt(path) ==
    CASE path = P_root -> "Home"
      [] path = P_browse -> "Browse"
      [] path = P_favorites -> "Favorites"
      [] OTHER -> "none"
screen == ScreenAt(location.path)

\* Requests one screen has in flight at once: searches, favorites changes
MaxInflight == 2
MaxToggles == 1

\* headers['Authorization'] = `Bearer ${token}` when localStorage holds a token
bearerOf(stored) == IF Truthy(stored) THEN stored ELSE NULL

-----------------------------------------------------------------------------
(* fetchFavorites of the three screens *)

\* Answers of GET /api/favorites: the body is an array, an object holding the
\* array, another object, null or no JSON at all; or the fetch rejects
FavAnswers ==
    {[status |-> "ok", shape |-> "array", items |-> it] :
        it \in {<<>>, <<B_dune>>, <<B_emma, B_dune>>}}
    \cup {[status |-> "ok", shape |-> "wrapped", items |-> <<B_dune>>]}
    \cup {[status |-> st, shape |-> sh, items |-> <<>>] :
            st \in {"ok", "401", "500"}, sh \in {"object", "null", "notjson"}}
    \cup {[status |-> "throws", shape |-> "none", items |-> <<>>]}

\* The search screen's request: Authorization only with a stored token
homeFavoritesRequest == Sent(bearerOf(ls_auth_token), NULL)
\* The Favorites screen's request: fetch(url) with no headers
favoritesPageRequest == Sent(NULL, NULL)

\* Home.fetchFavorites after the answer: the new favorites
homeFetchFavorites(variant, a) ==
    IF a.status = "ok" /\ a.shape = "array" THEN Arr(a.items)
    ELSE IF a.status = "ok" /\ a.shape = "wrapped" /\ variant = "app" THEN Arr(a.items)
    ELSE Arr(<<>>)

\* BrowseContent.fetchFavorites after the answer
browseFetchFavorites(a) ==
    IF a.status = "ok" /\ a.shape # "notjson"
    THEN IF a.shape = "array" THEN Arr(a.items) ELSE Arr(<<>>)
    ELSE favorites

\* Favorites.fetchFavorites after the answer: setFavorites(data), whatever data is
favoritesPageFetch(a) ==
    IF a.status = "throws" \/ a.shape = "notjson" THEN favorites
    ELSE IF a.shape = "array" THEN Arr(a.items)
    ELSE IF a.shape = "null" THEN NonArr("null")
    ELSE NonArr("object")

\* The answer to the mount's GET /api/favorites arrives. On the Favorites screen
\* the effect on [favorites, ...] then calls favorites.filter(...).
FetchFavoritesHandle ==
    /\ UNCHANGED <<extVars, ls_userPreferences>>
    /\ favReq.state = "sent"
    /\ ~crashed
    /\ \E a \in FavAnswers :
         /\ favorites' = CASE screen = "Home" -> homeFetchFavorites(homeVariant, a)
                           [] screen = "Browse" -> browseFetchFavorites(a)
                           [] OTHER -> favoritesPageFetch(a)
         /\ favReq' = Handled(favReq, a.status, a.shape)
    /\ fav_loading' = IF screen = "Favorites" THEN FALSE ELSE fav_loading
    /\ crashed' = (screen = "Favorites" /\ ~isArray(favorites'))
    /\ last' = Ran("fetchFavorites")
    /\ UNCHANGED <<authVars, storeVars, location, loginVars, signupVars, mwVars,
                   homeVariant, toggleReqs, home_error, healthReq, genresReq,
                   availableGenres, searchVars, issuedToken>>

-----------------------------------------------------------------------------
(* toggleFavorite (Home, BrowseContent) and removeFavorite (Favorites) *)

\* const getSafeFavorites = () => Array.isArray(favorites) ? favorites : []
getSafeFavorites == IF isArray(favorites) THEN favorites.items ELSE <<>>

Toggle(book, isFavorite, snapshot, bearer) ==
    [book |-> book, isFavorite |-> isFavorite, snapshot |-> snapshot, bearer |-> bearer]

\* A toggle that looks for the book itself in the list, not for its title
homeToggleStartByIdentity(book) ==
    LET safeFavorites == getSafeFavorites
        isFavorite == \E i \in 1..Len(safeFavorites) : safeFavorites[i] = book
    IN IF ~Truthy(ls_auth_token)
       THEN [send |-> FALSE, error |-> "Please login to manage favorites",
             request |-> Toggle(book, isFavorite, safeFavorites, NULL)]
       ELSE [send |-> TRUE, error |-> home_error,
             request |-> Toggle(book, isFavorite, safeFavorites, ls_auth_token)]

\* Home.toggleFavorite up to its await: [error, request] with request NULL-less
\* when nothing is sent
homeToggleStart(book) ==
    LET safeFavorites == getSafeFavorites
        isFavorite == someTitle(safeFavorites, book.title)
    IN IF ~Truthy(ls_auth_token)
       THEN [send |-> FALSE, error |-> "Please login to manage favorites",
             request |-> Toggle(book, isFavorite, safeFavorites, NULL)]
       ELSE [send |-> TRUE, error |-> home_error,
             request |-> Toggle(book, isFavorite, safeFavorites, ls_auth_token)]

\* BrowseContent.toggleFavorite up to its await: the request goes out with or
\* without the Authorization header
browseToggleStart(book) ==
    [send |-> TRUE, error |-> home_error,
     request |-> Toggle(book, someTitle(favorites.items, book.title),
                        favorites.items, bearerOf(ls_auth_token))]

\* Favorites.removeFavorite up to its await: DELETE with no headers
favoritesRemoveStart(book) ==
    [send |-> TRUE, error |-> home_error,
     request |-> Toggle(book, TRUE, favorites.items, NULL)]

\* A click on a book's heart (Home, Browse) or remove button (Favorites), with
\* fewer than inflight earlier clicks still awaiting their answer
toggleFavoriteWithin(inflight) ==
    /\ UNCHANGED <<extVars, ls_userPreferences>>
    /\ screen \in {"Home", "Browse", "Favorites"}
    /\ ~crashed
    /\ Len(toggleReqs) < inflight
    /\ \E book \in Books :
         /\ screen = "Favorites" => someTitle(favorites.items, book.title)
         /\ LET start == CASE screen = "Home" -> homeToggleStart(book)
                           [] screen = "Browse" -> browseToggleStart(book)
                           [] OTHER -> favoritesRemoveStart(book)
            IN
            /\ home_error' = start.error
            /\ toggleReqs' = IF start.send THEN Append(toggleReqs, start.request)
                             ELSE toggleReqs
            /\ last' = RanSending("toggleFavorite",
                   IF start.send
                   THEN ProtectedReq(IF start.request.isFavorite THEN "DELETE" ELSE "POST",
                                     "/api/favorites", start.request.bearer)
                   ELSE NoProtectedReq)
    /\ UNCHANGED <<authVars, storeVars, location, loginVars, signupVars, mwVars,
                   homeVariant, favorites, favReq, fav_loading, crashed, healthReq,
                   genresReq, availableGenres, searchVars, issuedToken>>

toggleFavorite == toggleFavoriteWithin(MaxToggles)

\* A click on a list that has been fetched, which may come while the answer to
\* an earlier click is outstanding
toggleFavoriteOverlapping ==
    /\ favReq.state = "handled"
    /\ toggleFavoriteWithin(MaxToggles + 1)

\* The favorites list the continuation sets on an OK answer
toggled(r) ==
    IF r.isFavorite THEN withoutTitle(r.snapshot, r.book.title)
    ELSE Append(r.snapshot, r.book)

RemoveAt(seq, i) == SubSeq(seq, 1, i - 1) \o SubSeq(seq, i + 1, Len(seq))

\* The answer to one of the requests in flight arrives
ToggleHandle ==
    /\ UNCHANGED <<extVars, ls_userPreferences>>
    /\ ~crashed
    /\ \E i \in 1..Len(toggleReqs), status \in {"ok", "nonok", "throws"} :
         LET r == toggleReqs[i] IN
         /\ toggleReqs' = RemoveAt(toggleReqs, i)
         /\ last' = [Ran("ToggleHandle") EXCEPT !.req = r, !.answer = status]
         /\ CASE screen = "Home" ->
                   IF status = "ok"
                   THEN favorites' = Arr(toggled(r)) /\ UNCHANGED home_error
                   ELSE /\ home_error' = "Failed to update favorites. Please try again."
                        /\ UNCHANGED favorites
              [] screen = "Browse" ->
                   /\ favorites' = IF status = "ok" THEN Arr(toggled(r)) ELSE favorites
                   /\ UNCHANGED home_error
              [] OTHER ->   \* Favorites: the list is filtered unless fetch rejected
                   /\ favorites' = IF status # "throws" THEN Arr(toggled(r)) ELSE favorites
                   /\ UNCHANGED home_error
    /\ UNCHANGED <<authVars, storeVars, location, loginVars, signupVars, mwVars,
                   homeVariant, favReq, fav_loading, crashed, healthReq, genresReq,
                   availableGenres, searchVars, issuedToken>>

-----------------------------------------------------------------------------
(* Favorites.clearAllFavorites *)

\* The loop awaits the DELETE for snapshot[next]; issued lists the titles a
\* DELETE went out for so far
Clearing(snapshot, next) ==
    [state |-> "sent", snapshot |-> snapshot, next |-> next,
     issued |-> [i \in 1..next |-> snapshot[i].title]]

\* A loop that goes on to the next favorite when a request throws
clearAllContinueSkippingFailed(r, status) ==
    IF r.next < Len(r.snapshot)
    THEN [clearReq |-> Clearing(r.snapshot, r.next + 1), empties |-> FALSE, send |-> TRUE]
    ELSE [clearReq |-> NoClear, empties |-> TRUE, send |-> FALSE]

\* The loop after the awaited DELETE settled: a rejected fetch leaves the try
\* block, any response lets the loop go on; setFavorites([]) follows the loop
clearAllContinue(r, status) ==
    IF status = "throws"
    THEN [clearReq |-> NoClear, empties |-> FALSE, send |-> FALSE]
    ELSE IF r.next < Len(r.snapshot)
         THEN [clearReq |-> Clearing(r.snapshot, r.next + 1), empties |-> FALSE,
               send |-> TRUE]
         ELSE [clearReq |-> NoClear, empties |-> TRUE, send |-> FALSE]

DeleteFavorite == ProtectedReq("DELETE", "/api/favorites", NULL)

\* The "Clear All" button, shown while the list is not empty, and the answer to
\* window.confirm; the loop runs up to its first await
clearAllFavorites ==
    /\ UNCHANGED <<autoSearch, availableAuthors, userPreferences, modalVars, imageVars,
                   browseVars, ls_userPreferences>>
    /\ screen = "Favorites"
    /\ ~crashed
    /\ ~fav_loading
    /\ favorites.items # <<>>
    /\ clearReq.state = "none"
    /\ \E confirmed \in BOOLEAN :
         IF confirmed
         THEN /\ clearReq' = Clearing(favorites.items, 1)
              /\ last' = [RanSending("clearAllFavorites", DeleteFavorite)
                            EXCEPT !.answer = "confirmed"]
         ELSE /\ UNCHANGED clearReq
              /\ last' = [Ran("clearAllFavorites") EXCEPT !.answer = "declined"]
    /\ UNCHANGED <<authVars, storeVars, location, loginVars, signupVars, mwVars,
                   screenVars, issuedToken>>

\* The DELETE the loop awaits settles
ClearHandle ==
    /\ UNCHANGED <<autoSearch, availableAuthors, userPreferences, modalVars, imageVars,
                   browseVars, ls_userPreferences>>
    /\ ~crashed
    /\ clearReq.state = "sent"
    /\ \E status \in {"ok", "nonok", "throws"} :
         LET after == clearAllContinue(clearReq, status) IN
         /\ clearReq' = after.clearReq
         /\ favorites' = IF after.empties THEN Arr(<<>>) ELSE favorites
         /\ last' = [RanSending("ClearHandle",
                                IF after.send THEN DeleteFavorite ELSE NoProtectedReq)
                       EXCEPT !.req = clearReq, !.answer = status]
    /\ UNCHANGED <<authVars, storeVars, location, loginVars, signupVars, mwVars,
                   homeVariant, favReq, toggleReqs, home_error, fav_loading, crashed,
                   healthReq, genresReq, availableGenres, searchVars, issuedToken>>

-----------------------------------------------------------------------------
(* Home: the mount's health check and genre list *)

\* testBackendConnection after its fetch settled: only a rejected fetch sets error
testBackendConnection(variant, outcome) ==
    IF outcome = "throws"
    THEN IF variant = "frontend"
         THEN "Cannot connect to server. Make sure the backend is running on port 5000."
         ELSE "Cannot connect to server. Please check your connection."
    ELSE home_error

HealthHandle ==
    /\ UNCHANGED <<extVars, ls_userPreferences>>
    /\ healthReq = "sent"
    /\ ~crashed
    /\ \E outcome \in {"ok", "nonok", "throws"} :
         home_error' = testBackendConnection(homeVariant, outcome)
    /\ healthReq' = "done"
    /\ last' = Ran("testBackendConnection")
    /\ UNCHANGED <<authVars, storeVars, location, loginVars, signupVars, mwVars,
                   homeVariant, favorites, favReq, toggleReqs, fav_loading, crashed,
                   genresReq, availableGenres, searchVars, issuedToken>>

G_scifi == <<"S","c","i","F","i">>

\* Answers of GET /api/genres and GET /api/authors: the list under its name
\* (`genres`, `authors`), as the bare body, or under `data`; an object without
\* a list; null; no JSON; a non-OK status; a rejected fetch
NamedListAnswers ==
    {[status |-> "ok", shape |-> sh] :
        sh \in {"named", "bare", "data", "object", "null", "notjson"}}
    \cup {[status |-> st, shape |-> "none"] : st \in {"nonok", "throws"}}

A_herbert == <<"H","e","r","b","e","r","t">>

\* One of the two lists of fetchGenresAndAuthors: [throws, list]
namedList(variant, a, items, current) ==
    IF a.status # "ok" THEN [throws |-> FALSE, list |-> current]
    ELSE IF a.shape = "notjson" THEN [throws |-> TRUE, list |-> current]
    ELSE IF variant = "frontend"
    THEN IF a.shape = "null" THEN [throws |-> TRUE, list |-> current]
         ELSE [throws |-> FALSE, list |-> IF a.shape = "named" THEN items ELSE <<>>]
    ELSE [throws |-> FALSE,
          list |-> IF a.shape \in {"named", "bare", "data"} THEN items ELSE <<>>]

\* fetchGenresAndAuthors after Promise.all settled: [genres, authors]. The
\* frontend catch only logs; the bookquest-app catch empties both lists.
fetchGenresAndAuthors(variant, g, a) ==
    LET caught(genresSoFar) ==
            IF variant = "app" THEN [genres |-> <<>>, authors |-> <<>>]
            ELSE [genres |-> genresSoFar, authors |-> availableAuthors]
        G == namedList(variant, g, <<G_scifi>>, availableGenres)
        A == namedList(variant, a, <<A_herbert>>, availableAuthors)
    IN IF g.status = "throws" \/ a.status = "throws" THEN caught(availableGenres)
       ELSE IF G.throws THEN caught(availableGenres)
       ELSE IF A.throws THEN caught(G.list)
       ELSE [genres |-> G.list, authors |-> A.list]

GenresHandle ==
    /\ UNCHANGED <<autoSearch, userPreferences, modalVars, imageVars, browseVars,
                   ls_userPreferences, clearReq>>
    /\ genresReq = "sent"
    /\ ~crashed
    /\ \E g \in NamedListAnswers, a \in NamedListAnswers :
         LET lists == fetchGenresAndAuthors(homeVariant, g, a) IN
         /\ availableGenres' = lists.genres
         /\ availableAuthors' = lists.authors
    /\ genresReq' = "done"
    /\ last' = Ran("fetchGenresAndAuthors")
    /\ UNCHANGED <<authVars, storeVars, location, loginVars, signupVars, mwVars,
                   homeVariant, favorites, favReq, toggleReqs, home_error, fav_loading,
                   crashed, healthReq, searchVars, issuedToken>>

-----------------------------------------------------------------------------
(* Home: search *)

All == <<"a","l","l">>
DefaultFilters == [minRating |-> 0, maxRating |-> 10, genre |-> All, author |-> <<>>]

\* String.prototype.toLowerCase, includes, trim
lower(c) ==
    CASE c = "A" -> "a" [] c = "E" -> "e" [] c = "F" -> "f" [] c = "H" -> "h"
      [] c = "R" -> "r" [] c = "S" -> "s" [] OTHER -> c
toLowerCase(s) == [i \in 1..Len(s) |-> lower(s[i])]
includes(s, sub) ==
    \E i \in 1..(Len(s) - Len(sub) + 1) : SubSeq(s, i, i + Len(sub) - 1) = sub
RECURSIVE trimStart(_)
trimStart(s) == IF s # <<>> /\ Head(s) = " " THEN trimStart(Tail(s)) ELSE s
RECURSIVE trimEnd(_)
trimEnd(s) ==
    IF s # <<>> /\ s[Len(s)] = " " THEN trimEnd(SubSeq(s, 1, Len(s) - 1)) ELSE s
trim(s) == trimEnd(trimStart(s))

\* What the user types into the search box
Queries == {<<" ">>, <<"d"," ">>}
\* const suggestions = ['Harry Potter', ..., '1984', ...]
suggestions == {<<"1","9","8","4">>}
SearchModes == {"title", "genre", "author", "hybrid"}
\* Values the filter controls are set to
MinRatings == {0, 5, 9}
MaxRatings == {10, 6}
\* The genre select offers 'all' and the genres the backend listed
GenreFilters == {All} \cup {availableGenres[i] : i \in 1..Len(availableGenres)}
AuthorFilters == {<<>>, <<"H","E","R">>}

\* The callback of recommendations.filter(...)
meetsFilters(variant, book, f) ==
    LET meetsRating == book.rating >= f.minRating /\ book.rating <= f.maxRating
        meetsAuthor == \/ f.author = <<>>
                       \/ includes(toLowerCase(book.author), toLowerCase(f.author))
        genreMatches == includes(toLowerCase(book.genre), toLowerCase(f.genre))
        meetsGenre == IF variant = "frontend"
                      THEN f.genre = All \/ book.genre = <<>> \/ genreMatches
                      ELSE f.genre = All \/ (book.genre # <<>> /\ genreMatches)
    IN meetsRating /\ meetsAuthor /\ meetsGenre

RECURSIVE filterBooks(_, _, _)
filterBooks(variant, recommendations, f) ==
    IF recommendations = <<>> THEN <<>>
    ELSE LET rest == filterBooks(variant, Tail(recommendations), f)
         IN IF meetsFilters(variant, Head(recommendations), f)
            THEN <<Head(recommendations)>> \o rest
            ELSE rest

\* Answers of the recommend endpoints: the list under `recommendations`, as the
\* bare body or under `data`; a non-array under `recommendations`; an object
\* without a list; null; no JSON; a non-OK status; a rejected fetch
SearchAnswers ==
    {[status |-> "ok", shape |-> "recommendations", items |-> it] :
        it \in {<<>>, <<B_emma>>, <<B_dune, B_emma>>}}
    \cup {[status |-> "ok", shape |-> sh, items |-> <<B_dune, B_emma>>] :
            sh \in {"bare", "data"}}
    \cup {[status |-> "ok", shape |-> sh, items |-> <<>>] :
            sh \in {"scalar", "none", "null", "notjson"}}
    \cup {[status |-> st, shape |-> "none", items |-> <<>>] : st \in {"nonok", "throws"}}

\* The recommendations the handler extracts from an OK answer
recommendationsOf(variant, a) ==
    IF a.shape = "notjson" THEN [kind |-> "throws", items |-> <<>>]
    ELSE IF variant = "frontend"
    THEN \* const recommendations = data.recommendations || []
         CASE a.shape = "null" -> [kind |-> "throws", items |-> <<>>]
           [] a.shape = "recommendations" -> Arr(a.items)
           [] a.shape = "scalar" -> NonArr("string")
           [] OTHER -> Arr(<<>>)
    ELSE CASE a.shape \in {"recommendations", "bare", "data"} -> Arr(a.items)
           [] OTHER -> Arr(<<>>)

Restrictive == "Your current filters were too restrictive. Showing all results."

displayedNoFallback(recommendations, filteredBooks) ==
    [setBooks |-> TRUE, books |-> filteredBooks, error |-> ""]

\* What is shown for a list and the books of it that pass: when none passes,
\* all of them and a message
displayed(recommendations, filteredBooks) ==
    IF filteredBooks = <<>> /\ recommendations # <<>>
    THEN [setBooks |-> TRUE, books |-> recommendations, error |-> Restrictive]
    ELSE [setBooks |-> TRUE, books |-> filteredBooks, error |-> ""]

Unreachable(variant) ==
    IF variant = "frontend"
    THEN "Failed to connect to server. Make sure the backend is running and accessible."
    ELSE "Failed to connect to server. Please check your connection."

\* performSearch after its fetch settled, with the filters of the render that
\* called it: [setBooks, books, error]
searchOutcome(variant, a, f) ==
    LET caught == [setBooks |-> FALSE, books |-> <<>>, error |-> Unreachable(variant)]
        recs == recommendationsOf(variant, a)
    IN
    IF a.status # "ok" \/ recs.kind = "throws" THEN caught
    ELSE IF variant = "frontend"
    THEN IF isArray(recs)
         THEN displayed(recs.items, filterBooks(variant, recs.items, f))
         ELSE [setBooks |-> FALSE, books |-> <<>>,
               error |-> "Invalid response format from server"]
    ELSE IF recs.items # <<>>
         THEN displayed(recs.items, filterBooks(variant, recs.items, f))
         ELSE [setBooks |-> TRUE, books |-> <<>>,
               error |-> "No books found for your search."]

HistoryMax == 5

RECURSIVE without(_, _)
without(h, search) ==
    IF h = <<>> THEN <<>>
    ELSE IF Head(h) # search THEN <<Head(h)>> \o without(Tail(h), search)
    ELSE without(Tail(h), search)

\* [search, ...searchHistory.filter(h => h !== search)].slice(0, 5)
historyWith(history, search) ==
    LET all == <<search>> \o without(history, search)
    IN SubSeq(all, 1, IF Len(all) < HistoryMax THEN Len(all) ELSE HistoryMax)

\* addToHistory as the current render defines it
addToHistory(search) == historyWith(searchHistory, search)

\* encodeURIComponent, on the characters queries are made of
RECURSIVE encodeURIComponent(_)
encodeURIComponent(s) ==
    IF s = <<>> THEN <<>>
    ELSE (IF Head(s) = " " THEN <<"%", "2", "0">> ELSE <<Head(s)>>)
         \o encodeURIComponent(Tail(s))

\* A request without a body; JSON.stringify({...}) as the body
NoBody == <<>>
JSONBody(fields) == <<fields>>

\* A search that always uses the title endpoint
searchRequestTitleOnly(searchQuery, mode, f, preferences) ==
    [method |-> "GET", url |-> <<"/api/recommend?q=", encodeURIComponent(searchQuery)>>,
     body |-> NoBody]

\* performSearch's switch (mode): the url and the requestOptions of its fetch
searchRequest(searchQuery, mode, f, preferences) ==
    CASE mode = "genre" ->
           [method |-> "GET",
            url |-> <<"/api/recommend/genre/", encodeURIComponent(searchQuery)>>,
            body |-> NoBody]
      [] mode = "author" ->
           [method |-> "GET",
            url |-> <<"/api/recommend/author/", encodeURIComponent(searchQuery)>>,
            body |-> NoBody]
      [] mode = "hybrid" ->
           [method |-> "POST",
            url |-> <<"/api/recommend/hybrid", <<>>>>,
            body |-> JSONBody([book_title |-> searchQuery,
                               genre |-> IF f.genre # All THEN f.genre ELSE <<>>,
                               author |-> f.author,
                               user_preferences |-> preferences])]
      [] OTHER ->
           [method |-> "GET",
            url |-> <<"/api/recommend?q=", encodeURIComponent(searchQuery)>>,
            body |-> NoBody]

SearchReq(searchQuery, mode) ==
    [query |-> searchQuery, mode |-> mode, filters |-> filters,
     request |-> searchRequest(searchQuery, mode, filters, userPreferences)]

\* performSearch(searchQuery, mode) up to its await
performSearch(searchQuery, mode) ==
    IF trim(searchQuery) = <<>>
    THEN UNCHANGED <<home_loading, home_error, searchHistory, ls_recentSearches,
                     searchReqs>>
    ELSE /\ home_loading' = TRUE
         /\ home_error' = ""
         /\ searchHistory' = addToHistory(trim(searchQuery))
         /\ ls_recentSearches' = JSONstringify(searchHistory')
         /\ searchReqs' = Append(searchReqs, SearchReq(searchQuery, mode))

\* Typing into the search box, which is disabled while loading
ChangeQuery ==
    /\ UNCHANGED <<extVars, ls_userPreferences>>
    /\ screen = "Home"
    /\ ~crashed
    /\ ~home_loading
    /\ \E q \in Queries : query' = q
    /\ last' = Ran("setQuery")
    /\ UNCHANGED <<authVars, storeVars, location, loginVars, signupVars, mwVars,
                   homeVariant, favVars, searchMode, filters, books, home_loading,
                   searchHistory, ls_recentSearches, searchReqs, issuedToken>>

\* A mode button
SetSearchMode ==
    /\ UNCHANGED <<extVars, ls_userPreferences>>
    /\ screen = "Home"
    /\ ~crashed
    /\ \E mode \in SearchModes : searchMode' = mode
    /\ last' = Ran("setSearchMode")
    /\ UNCHANGED <<authVars, storeVars, location, loginVars, signupVars, mwVars,
                   homeVariant, favVars, query, filters, books, home_loading,
                   searchHistory, ls_recentSearches, searchReqs, issuedToken>>

\* One of the four filter controls: setFilters({...filters, field: value})
SetFilter ==
    /\ UNCHANGED <<extVars, ls_userPreferences>>
    /\ screen = "Home"
    /\ ~crashed
    /\ \E f \in {[filters EXCEPT !.minRating = v] : v \in MinRatings}
                \cup {[filters EXCEPT !.maxRating = v] : v \in MaxRatings}
                \cup {[filters EXCEPT !.genre = v] : v \in GenreFilters}
                \cup {[filters EXCEPT !.author = v] : v \in AuthorFilters} :
         filters' = f
    /\ last' = Ran("setFilters")
    /\ UNCHANGED <<authVars, storeVars, location, loginVars, signupVars, mwVars,
                   homeVariant, favVars, query, searchMode, books, home_loading,
                   searchHistory, ls_recentSearches, searchReqs, issuedToken>>

\* The genre select and the author box alone, the two filters a hybrid search sends
SetGenreOrAuthor ==
    /\ UNCHANGED <<extVars, ls_userPreferences>>
    /\ screen = "Home"
    /\ ~crashed
    /\ \E f \in {[filters EXCEPT !.genre = v] : v \in GenreFilters}
                \cup {[filters EXCEPT !.author = v] : v \in AuthorFilters} :
         filters' = f
    /\ last' = Ran("setFilters")
    /\ UNCHANGED <<authVars, storeVars, location, loginVars, signupVars, mwVars,
                   homeVariant, favVars, query, searchMode, books, home_loading,
                   searchHistory, ls_recentSearches, searchReqs, issuedToken>>

clearFilters ==
    /\ UNCHANGED <<extVars, ls_userPreferences>>
    /\ screen = "Home"
    /\ ~crashed
    /\ filters' = DefaultFilters
    /\ last' = Ran("clearFilters")
    /\ UNCHANGED <<authVars, storeVars, location, loginVars, signupVars, mwVars,
                   homeVariant, favVars, query, searchMode, books, home_loading,
                   searchHistory, ls_recentSearches, searchReqs, issuedToken>>

\* The search button (disabled while loading or with a blank query) or Enter in
\* the search box (disabled while loading)
searchBooks ==
    /\ UNCHANGED <<extVars, ls_userPreferences>>
    /\ screen = "Home"
    /\ ~crashed
    /\ ~home_loading
    /\ Len(searchReqs) < MaxInflight
    /\ performSearch(query, searchMode)
    /\ last' = Ran("searchBooks")
    /\ UNCHANGED <<authVars, storeVars, location, loginVars, signupVars, mwVars,
                   homeVariant, favVars, query, searchMode, filters, books, issuedToken>>

\* A suggestion button or a recent-search button; neither is ever disabled
handleSuggestionClick ==
    /\ UNCHANGED <<extVars, ls_userPreferences>>
    /\ screen = "Home"
    /\ ~crashed
    /\ Len(searchReqs) < MaxInflight
    /\ \E suggestion \in suggestions \cup {searchHistory[i] : i \in 1..Len(searchHistory)} :
         /\ query' = suggestion
         /\ searchMode' = "title"
         /\ performSearch(suggestion, "title")
    /\ last' = Ran("handleSuggestionClick")
    /\ UNCHANGED <<authVars, storeVars, location, loginVars, signupVars, mwVars,
                   homeVariant, favVars, filters, books, issuedToken>>

\* A quick genre button; never disabled
searchByGenre ==
    /\ UNCHANGED <<extVars, ls_userPreferences>>
    /\ screen = "Home"
    /\ ~crashed
    /\ Len(searchReqs) < MaxInflight
    /\ \E i \in 1..Len(availableGenres) :
         /\ query' = availableGenres[i]
         /\ searchMode' = "genre"
         /\ performSearch(availableGenres[i], "genre")
    /\ last' = Ran("searchByGenre")
    /\ UNCHANGED <<authVars, storeVars, location, loginVars, signupVars, mwVars,
                   homeVariant, favVars, filters, books, issuedToken>>

\* What the first render's closures hold: the useState initial values
firstRender ==
    [searchHistory |-> <<>>, searchMode |-> "title", filters |-> DefaultFilters,
     userPreferences |-> NoPreferences]

\* The history the timer's performSearch reads: the mount effect's closure is the
\* first render's
autoSearchHistory == firstRender.searchHistory

\* setTimeout(() => performSearch(searchParam), 100) fires: performSearch as the
\* first render defined it, up to its await
AutoSearch ==
    /\ UNCHANGED <<availableAuthors, userPreferences, modalVars, imageVars, browseVars,
                   ls_userPreferences, clearReq>>
    /\ screen = "Home"
    /\ ~crashed
    /\ autoSearch # NoParam
    /\ Len(searchReqs) < MaxInflight
    /\ autoSearch' = NoParam
    /\ IF trim(autoSearch) = <<>>
       THEN UNCHANGED <<home_loading, home_error, searchHistory, ls_recentSearches,
                        searchReqs>>
       ELSE /\ home_loading' = TRUE
            /\ home_error' = ""
            /\ searchHistory' = historyWith(autoSearchHistory, trim(autoSearch))
            /\ ls_recentSearches' = JSONstringify(searchHistory')
            /\ searchReqs' = Append(searchReqs,
                   [query |-> autoSearch, mode |-> firstRender.searchMode,
                    filters |-> firstRender.filters,
                    request |-> searchRequest(autoSearch, firstRender.searchMode,
                                              firstRender.filters,
                                              firstRender.userPreferences)])
    /\ last' = [Ran("autoSearch") EXCEPT !.req = autoSearch]
    /\ UNCHANGED <<authVars, storeVars, location, loginVars, signupVars, mwVars,
                   homeVariant, favVars, query, searchMode, filters, books, issuedToken>>

\* A continuation that would drop the answer of a superseded search
SearchHandleLatestOnly ==
    /\ UNCHANGED <<extVars, ls_userPreferences>>
    /\ ~crashed
    /\ \E i \in 1..Len(searchReqs), a \in SearchAnswers :
         LET r == searchReqs[i]
             out == searchOutcome(homeVariant, a, r.filters)
             latest == i = Len(searchReqs)
         IN
         /\ searchReqs' = RemoveAt(searchReqs, i)
         /\ books' = IF latest /\ out.setBooks THEN out.books ELSE books
         /\ home_error' = IF latest THEN out.error ELSE home_error
         /\ home_loading' = (searchReqs' # <<>>)
         /\ last' = [Ran("performSearch") EXCEPT !.req = r, !.answer = a]
    /\ UNCHANGED <<authVars, storeVars, location, loginVars, signupVars, mwVars,
                   homeVariant, favorites, favReq, toggleReqs, fav_loading, crashed,
                   healthReq, genresReq, availableGenres,
                   query, searchMode, filters, searchHistory, ls_recentSearches,
                   issuedToken>>

\* The answer to one of the searches in flight arrives: the rest of performSearch
\* runs with the filters it was called with, and its finally clears loading
SearchHandle ==
    /\ UNCHANGED <<extVars, ls_userPreferences>>
    /\ ~crashed
    /\ \E i \in 1..Len(searchReqs), a \in SearchAnswers :
         LET r == searchReqs[i]
             out == searchOutcome(homeVariant, a, r.filters)
         IN
         /\ searchReqs' = RemoveAt(searchReqs, i)
         /\ books' = IF out.setBooks THEN out.books ELSE books
         /\ home_error' = out.error
         /\ home_loading' = FALSE
         /\ last' = [Ran("performSearch") EXCEPT !.req = r, !.answer = a]
    /\ UNCHANGED <<authVars, storeVars, location, loginVars, signupVars, mwVars,
                   homeVariant, favorites, favReq, toggleReqs, fav_loading, crashed,
                   healthReq, genresReq, availableGenres,
                   query, searchMode, filters, searchHistory, ls_recentSearches,
                   issuedToken>>

-----------------------------------------------------------------------------
(* Mounting a screen *)

NoEntry == <<"absent">>

\* The mount effect's reading of localStorage 'recentSearches'
loadHistory(recent) ==
    IF recent = NoEntry \/ JSONparseThrows(recent) THEN <<>> ELSE JSONparse(recent)

\* The GET /api/favorites a mounting screen sends
mountRequest(sc) ==
    CASE sc \in {"Home", "Browse"} ->
           ProtectedReq("GET", "/api/favorites", bearerOf(ls_auth_token))
      [] sc = "Favorites" -> ProtectedReq("GET", "/api/favorites", NULL)
      [] OTHER -> NoProtectedReq

\* The mount effect's reading of localStorage 'userPreferences'
loadPreferences(stored) ==
    IF stored = NoEntry \/ JSONparseThrows(stored) THEN NoPreferences ELSE JSONparse(stored)

\* The detail modal closed, as the component's initial state has it
ModalClosed ==
    /\ selectedBook = NoBook
    /\ bookDetails = NoDetails
    /\ detailsReqs = <<>>
    /\ detailsTitle = NULL
    /\ modalLoading = FALSE
    /\ userRating = 0
    /\ rateReqs = <<>>
    /\ imageSrc = NULL
    /\ imageError = FALSE
    /\ imageLoad = FALSE
    /\ imageTried = {}

ModalReset ==
    /\ selectedBook' = NoBook
    /\ bookDetails' = NoDetails
    /\ detailsReqs' = <<>>
    /\ detailsTitle' = NULL
    /\ modalLoading' = FALSE
    /\ userRating' = 0
    /\ rateReqs' = <<>>
    /\ imageSrc' = NULL
    /\ imageError' = FALSE
    /\ imageLoad' = FALSE
    /\ imageTried' = {}

\* BrowseContent's initial state and its mount effect up to the awaits
BrowseMounted(sc) ==
    /\ popularBooks = Arr(<<>>)
    /\ randomBooks = Arr(<<>>)
    /\ browse_filteredBooks = Arr(<<>>)
    /\ selectedGenre = All
    /\ browse_loading = TRUE
    /\ booksReq = IF sc = "Browse" THEN "sent" ELSE "none"
    /\ browse_availableGenres = Arr(<<>>)
    /\ browseGenresReq = IF sc = "Browse" THEN "sent" ELSE "none"
    /\ genreBooksReqs = <<>>

BrowseMount(sc) ==
    /\ popularBooks' = Arr(<<>>)
    /\ randomBooks' = Arr(<<>>)
    /\ browse_filteredBooks' = Arr(<<>>)
    /\ selectedGenre' = All
    /\ browse_loading' = TRUE
    /\ booksReq' = IF sc = "Browse" THEN "sent" ELSE "none"
    /\ browse_availableGenres' = Arr(<<>>)
    /\ browseGenresReq' = IF sc = "Browse" THEN "sent" ELSE "none"
    /\ genreBooksReqs' = <<>>

\* The mounted screen's initial state and its mount effect up to the awaits; the
\* document is requested without a ?search= parameter
MountScreen(sc) ==
    /\ favorites' = Arr(<<>>)
    /\ favReq' = CASE sc \in {"Home", "Browse"} -> homeFavoritesRequest
                   [] sc = "Favorites" -> favoritesPageRequest
                   [] OTHER -> NoReq
    /\ toggleReqs' = <<>>
    /\ home_error' = ""
    /\ fav_loading' = TRUE
    /\ crashed' = FALSE
    /\ healthReq' = IF sc = "Home" THEN "sent" ELSE "none"
    /\ genresReq' = IF sc = "Home" THEN "sent" ELSE "none"
    /\ availableGenres' = <<>>
    /\ query' = <<>>
    /\ searchMode' = "title"
    /\ filters' = DefaultFilters
    /\ books' = <<>>
    /\ home_loading' = FALSE
    /\ searchHistory' = IF sc = "Home" THEN loadHistory(ls_recentSearches) ELSE <<>>
    /\ searchReqs' = <<>>
    /\ UNCHANGED ls_recentSearches
    /\ autoSearch' = NoParam
    /\ availableAuthors' = <<>>
    /\ userPreferences' = IF sc = "Home" THEN loadPreferences(ls_userPreferences)
                                         ELSE NoPreferences
    /\ ModalReset
    /\ BrowseMount(sc)
    /\ clearReq' = NoClear

\* The same as a state: the screen just mounted, from a document requested with
\* ?search=<searchParam> or without (NoParam); on the search screen a non-empty
\* parameter is put into the search box and a timer is set for its search
MountedWith(sc, searchParam) ==
    /\ favorites = Arr(<<>>)
    /\ favReq = CASE sc \in {"Home", "Browse"} -> homeFavoritesRequest
                  [] sc = "Favorites" -> favoritesPageRequest
                  [] OTHER -> NoReq
    /\ toggleReqs = <<>>
    /\ home_error = ""
    /\ fav_loading = TRUE
    /\ crashed = FALSE
    /\ healthReq = IF sc = "Home" THEN "sent" ELSE "none"
    /\ genresReq = IF sc = "Home" THEN "sent" ELSE "none"
    /\ availableGenres = <<>>
    /\ query = IF sc = "Home" THEN searchParam ELSE <<>>
    /\ searchMode = "title"
    /\ filters = DefaultFilters
    /\ books = <<>>
    /\ home_loading = FALSE
    /\ searchHistory = IF sc = "Home" THEN loadHistory(ls_recentSearches) ELSE <<>>
    /\ searchReqs = <<>>
    /\ autoSearch = IF sc = "Home" THEN searchParam ELSE NoParam
    /\ availableAuthors = <<>>
    /\ userPreferences = IF sc = "Home" THEN loadPreferences(ls_userPreferences)
                                        ELSE NoPreferences
    /\ ModalClosed
    /\ BrowseMounted(sc)
    /\ clearReq = NoClear

Mounted(sc) == MountedWith(sc, NoParam)

-----------------------------------------------------------------------------
(* Login page *)

\* A login page that ignores its redirectTo parameter
redirectToIgnored == P_browse

\* const redirectTo = searchParams?.get('redirectTo') || '/browse'
redirectTo == IF location.redirectTo = NULL THEN P_browse ELSE location.redirectTo

\* handleSubmit up to `await login(...)`; the button is disabled while loading
LoginSubmit ==
    /\ UNCHANGED <<extVars, ls_userPreferences>>
    /\ location.path = P_login
    /\ authPc # "start"
    /\ ~login_loading
    /\ login_loading' = TRUE
    /\ login_error' = ""
    /\ loginReq' = Sent(NULL, redirectTo)
    /\ last' = Ran("LoginSubmit")
    /\ UNCHANGED <<authVars, storeVars, location, signupVars, mwVars, issuedToken, screenVars>>

\* The page's part of handleSubmit after login() settled: [location, error]
loginPageAfter(post, target) ==
    IF post.threw
    THEN [navigate |-> NULL,
          error |-> OrElse(post.message,
                           "Login failed. Please check your credentials and try again.")]
    ELSE [navigate |-> target, error |-> login_error]

\* router.replace(target): the request passes the middleware with the cookies as
\* they are now and the page it lands on mounts; target NULL is no navigation
Navigate(target, jar) ==
    IF target = NULL
    THEN UNCHANGED <<location, mwRequest, mwResponse, favVars, searchVars, extVars>>
    ELSE /\ mwRequest' = [pathname |-> target, token |-> getCookie(jar)]
         /\ mwResponse' = Serve(mwVariant, target, getCookie(jar))
         /\ location' = Land(mwVariant, target, getCookie(jar))
         /\ MountScreen(ScreenAt(location'.path))

\* The answer arrives: login() continues, then handleSubmit's try/catch/finally
LoginHandle ==
    /\ UNCHANGED ls_userPreferences
    /\ loginReq.state = "sent"
    /\ \E r \in AuthAnswers :
         LET post == authPost(r.status, r.body, "Login failed")
             page == loginPageAfter(post, loginReq.ctx)
         IN
         /\ token' = post.token
         /\ user' = post.user
         /\ cookie' = post.cookie
         /\ ls_auth_user' = post.ls_auth_user
         /\ issuedToken' = IF post.threw THEN issuedToken ELSE r.body.token
         /\ Navigate(page.navigate, post.cookie)
         /\ login_error' = page.error
         /\ login_loading' = FALSE
         /\ loginReq' = Handled(loginReq, r.status, r.body)
         /\ last' = RanSending("LoginHandle",
                              IF page.navigate = NULL THEN NoProtectedReq
                              ELSE mountRequest(ScreenAt(location'.path)))
    /\ UNCHANGED <<authVariant, auth_loading, authPc, verifyReq, ls_auth_token,
                   signupVars, mwVariant, homeVariant>>

-----------------------------------------------------------------------------
(* Signup page *)

Pw_short == <<"a","b","c">>
Pw_six   == <<"s","e","c","r","e","t">>
Pw_seven == <<"s","e","c","r","e","t","1">>
Passwords == {Pw_short, Pw_six, Pw_seven}
MinPasswordLen == 6

\* handleChange on the password fields
SignupChange ==
    /\ UNCHANGED <<extVars, ls_userPreferences>>
    /\ location.path = P_signup
    /\ authPc # "start"
    /\ \E f \in [password : Passwords, confirmPassword : Passwords] :
         /\ f # formData
         /\ formData' = f
    /\ last' = Ran("SignupChange")
    /\ UNCHANGED <<authVars, storeVars, location, loginVars, signup_loading,
                   signup_error, signupReq, mwVars, issuedToken, screenVars>>

\* (variant) the comparison with confirmPassword is left out
signupValidateLengthOnly(f) ==
    IF Len(f.password) < MinPasswordLen THEN "Password must be at least 6 characters"
    ELSE NULL

\* The validation at the head of handleSubmit: the message it stops with, or NULL
signupValidate(f) ==
    IF f.password # f.confirmPassword THEN "Passwords do not match"
    ELSE IF Len(f.password) < MinPasswordLen THEN "Password must be at least 6 characters"
    ELSE NULL

\* handleSubmit up to `await signup(...)`, or to the return of a failed validation
\* (the inputs are `required` with minLength 6: the browser submits nothing less)
SignupSubmit ==
    /\ UNCHANGED <<extVars, ls_userPreferences>>
    /\ location.path = P_signup
    /\ authPc # "start"
    /\ ~signup_loading
    /\ Len(formData.password) >= 6
    /\ Len(formData.confirmPassword) >= 6
    /\ LET v == signupValidate(formData) IN
       IF v # NULL
       THEN /\ signup_error' = v
            /\ signup_loading' = FALSE
            /\ UNCHANGED signupReq
       ELSE /\ signup_error' = ""
            /\ signup_loading' = TRUE
            /\ signupReq' = Sent(NULL, NULL)
    /\ last' = Ran("SignupSubmit")
    /\ UNCHANGED <<authVars, storeVars, location, loginVars, formData, mwVars,
                   issuedToken, screenVars>>

\* The page's part of handleSubmit after signup() settled (err instanceof Error)
signupPageAfter(post) ==
    IF post.threw
    THEN [navigate |-> NULL, error |-> post.message]
    ELSE [navigate |-> P_browse, error |-> signup_error]

\* The answer arrives: signup() continues, then handleSubmit's try/catch/finally
SignupHandle ==
    /\ UNCHANGED ls_userPreferences
    /\ signupReq.state = "sent"
    /\ \E r \in AuthAnswers :
         LET post == authPost(r.status, r.body, "Signup failed")
             page == signupPageAfter(post)
         IN
         /\ token' = post.token
         /\ user' = post.user
         /\ cookie' = post.cookie
         /\ ls_auth_user' = post.ls_auth_user
         /\ issuedToken' = IF post.threw THEN issuedToken ELSE r.body.token
         /\ Navigate(page.navigate, post.cookie)
         /\ signup_error' = page.error
         /\ signup_loading' = FALSE
         /\ signupReq' = Handled(signupReq, r.status, r.body)
         /\ last' = RanSending("SignupHandle",
                              IF page.navigate = NULL THEN NoProtectedReq
                              ELSE mountRequest(ScreenAt(location'.path)))
    /\ UNCHANGED <<authVariant, auth_loading, authPc, verifyReq, ls_auth_token,
                   loginVars, formData, mwVariant, homeVariant>>

-----------------------------------------------------------------------------
(* A document request: the middleware answers, the page mounts afresh *)

EmptyForm == [password |-> <<>>, confirmPassword |-> <<>>]

PageLoad ==
    /\ UNCHANGED ls_userPreferences
    /\ UNCHANGED <<authVariant, mwVariant, homeVariant, cookie, ls_auth_user,
                   ls_auth_token, issuedToken>>
    /\ \E pathname \in Paths : Navigate(pathname, cookie)
    /\ user' = NULL
    /\ token' = NULL
    /\ auth_loading' = TRUE
    /\ authPc' = "start"
    /\ verifyReq' = NoReq
    /\ login_loading' = FALSE
    /\ login_error' = ""
    /\ loginReq' = NoReq
    /\ formData' = EmptyForm
    /\ signup_loading' = FALSE
    /\ signup_error' = ""
    /\ signupReq' = NoReq
    /\ last' = RanSending("PageLoad", mountRequest(ScreenAt(location'.path)))

\* Navbar.getMenuItems() and the Login link of getAuthActions()
getMenuItems ==
    {P_root}
    \cup (IF isAuthenticated THEN {P_browse, P_favorites} ELSE {})
    \cup (IF ~auth_loading /\ ~isAuthenticated THEN {P_login} ELSE {})

\* A link of the navigation bar: the middleware answers and the page it lands on
\* mounts; the AuthProvider stays mounted. Taken while no form is being submitted.
LinkClick ==
    /\ UNCHANGED ls_userPreferences
    /\ authPc # "start"
    /\ loginReq.state # "sent"
    /\ signupReq.state # "sent"
    /\ UNCHANGED <<authVars, storeVars, mwVariant, homeVariant, issuedToken>>
    /\ \E pathname \in getMenuItems : Navigate(pathname, cookie)
    /\ login_loading' = FALSE
    /\ login_error' = ""
    /\ loginReq' = NoReq
    /\ formData' = EmptyForm
    /\ signup_loading' = FALSE
    /\ signup_error' = ""
    /\ signupReq' = NoReq
    /\ last' = RanSending("LinkClick", mountRequest(ScreenAt(location'.path)))

\* The cookie's `expires` date passes: the browser drops it
CookieExpire ==
    /\ UNCHANGED <<extVars, ls_userPreferences>>
    /\ cookie # NULL
    /\ cookie' = NULL
    /\ last' = Ran("CookieExpire")
    /\ UNCHANGED <<ls_auth_user, ls_auth_token, location, authVars, loginVars,
                   signupVars, mwVars, issuedToken, screenVars>>

-----------------------------------------------------------------------------
(* The book detail modal of the search screen *)

\* The six resolution fields, largest first
Resolutions == <<"extraLarge", "large", "medium", "small", "thumbnail", "smallThumbnail">>

Field(key, value) == [key |-> key, value |-> value]

\* images.<key>: the field's value, undefined (falsy) when the object lacks it
ImageOf(images, key) ==
    IF \E i \in 1..Len(images.fields) : images.fields[i].key = key
    THEN images.fields[CHOOSE i \in 1..Len(images.fields) : images.fields[i].key = key].value
    ELSE ""

\* Covers a search result carries, and image link objects the backend answers with
BookImages == {"", "c"}
ImageLinkSets ==
    {NoLinks, Links(<<>>),
     Links(<<Field("thumbnail", "")>>),
     Links(<<Field("large", "a"), Field("medium", "b")>>),
     Links(<<Field("extraLarge", ""), Field("large", "a"), Field("medium", "b")>>),
     Links(<<Field("smallThumbnail", "b"), Field("thumbnail", "a")>>),
     Links(<<Field("thumbnail", "a"), Field("smallThumbnail", "a")>>),
     Links(<<Field("large", "a"), Field("medium", "b"), Field("small", "a")>>)}

\* A chain that prefers the smallest image
getBestAvailableImageSmallestFirst(imageErr, details, bookImage) ==
    IF imageErr THEN NULL
    ELSE LET images == details.imageLinks IN
         IF ~details.loaded \/ ~images.present THEN OrElse(bookImage, NULL)
         ELSE OrElse(ImageOf(images, "smallThumbnail"),
              OrElse(ImageOf(images, "thumbnail"),
              OrElse(ImageOf(images, "small"),
              OrElse(ImageOf(images, "medium"),
              OrElse(ImageOf(images, "large"),
              OrElse(ImageOf(images, "extraLarge"),
              OrElse(bookImage, NULL)))))))

\* Modal.getBestAvailableImage
getBestAvailableImage(imageErr, details, bookImage) ==
    IF imageErr THEN NULL
    ELSE LET images == details.imageLinks IN
         IF ~details.loaded \/ ~images.present THEN OrElse(bookImage, NULL)
         ELSE OrElse(ImageOf(images, "extraLarge"),
              OrElse(ImageOf(images, "large"),
              OrElse(ImageOf(images, "medium"),
              OrElse(ImageOf(images, "small"),
              OrElse(ImageOf(images, "thumbnail"),
              OrElse(ImageOf(images, "smallThumbnail"),
              OrElse(bookImage, NULL)))))))

\* Object.values(images), and array.indexOf counted from 0
ObjectValues(images) == [i \in 1..Len(images.fields) |-> images.fields[i].value]
indexOf(values, v) ==
    IF \E i \in 1..Len(values) : values[i] = v
    THEN (CHOOSE i \in 1..Len(values) :
            values[i] = v /\ \A j \in 1..(i - 1) : values[j] # v) - 1
    ELSE -1

\* Book detail requests one screen has in flight at once
MaxDetails == 2

\* The cover is on screen: details are shown and there is a source without error
imageShown ==
    /\ selectedBook # NoBook
    /\ ~modalLoading
    /\ bookDetails.loaded
    /\ Truthy(imageSrc)
    /\ ~imageError

\* The <img> the render leaves: a source it did not have before starts loading
Rendered ==
    /\ imageLoad' = (imageShown' /\ (imageSrc' # imageSrc \/ ~imageShown \/ imageLoad))
    /\ imageTried' = IF imageShown' THEN imageTried \cup {imageSrc'} ELSE imageTried

\* The books whose cards are on screen
displayedBooks ==
    CASE screen = "Home" -> {books[i] : i \in 1..Len(books)}
      [] screen = "Browse" ->
           {popularBooks.items[i] : i \in 1..Len(popularBooks.items)}
           \cup {randomBooks.items[i] : i \in 1..Len(randomBooks.items)}
           \cup {browse_filteredBooks.items[i] : i \in 1..Len(browse_filteredBooks.items)}
      [] OTHER -> {}

\* BrowseContent's router.push of its own path with another query string: the
\* request passes the middleware, and the page stays as it is unless the
\* middleware redirects it
pushKeepsPage(pathname) ==
    Land(mwVariant, pathname, getCookie(cookie)).path = location.path

PushedSame(pathname) ==
    /\ mwRequest' = [pathname |-> pathname, token |-> getCookie(cookie)]
    /\ mwResponse' = Serve(mwVariant, pathname, getCookie(cookie))
    /\ UNCHANGED location

\* The push is redirected: the page the browser lands on mounts
PushedAway(op, pathname) ==
    /\ UNCHANGED <<authVars, storeVars, mwVariant, homeVariant, issuedToken,
                   ls_userPreferences>>
    /\ Navigate(pathname, cookie)
    /\ login_loading' = FALSE
    /\ login_error' = ""
    /\ loginReq' = NoReq
    /\ formData' = EmptyForm
    /\ signup_loading' = FALSE
    /\ signup_error' = ""
    /\ signupReq' = NoReq
    /\ last' = RanSending(op, mountRequest(ScreenAt(location'.path)))

\* A click on a book card of the search screen or of BrowseContent: the modal
\* mounts and its effect sets the first source
openBookDetails ==
    /\ screen \in {"Home", "Browse"}
    /\ ~crashed
    /\ selectedBook = NoBook
    /\ Len(detailsReqs) < MaxDetails
    /\ UNCHANGED clearReq
    /\ \E book \in displayedBooks, image \in BookImages :
         IF screen = "Browse" /\ ~pushKeepsPage(P_browse)
         THEN PushedAway("openBookDetails", P_browse)
         ELSE /\ selectedBook' = [title |-> book.title, image |-> image]
              /\ imageSrc' = getBestAvailableImage(FALSE, NoDetails, image)
              /\ modalLoading' = TRUE
              /\ detailsReqs' = Append(detailsReqs, book.title)
              /\ bookDetails' = NoDetails
              /\ detailsTitle' = NULL
              /\ userRating' = 0
              /\ imageError' = FALSE
              /\ imageLoad' = FALSE
              /\ imageTried' = {}
              /\ IF screen = "Browse" THEN PushedSame(P_browse)
                 ELSE UNCHANGED <<mwRequest, mwResponse, location>>
              /\ last' = Ran("openBookDetails")
              /\ UNCHANGED <<authVars, storeVars, loginVars, signupVars, mwVariant,
                             screenVars, issuedToken, autoSearch, availableAuthors,
                             userPreferences, ls_userPreferences, rateReqs, browseVars>>

\* The answer to one of the GET /api/book/<title> in flight arrives: the
\* continuation of the openBookDetails call that sent it runs, whichever book is
\* selected by now
DetailsHandle ==
    /\ UNCHANGED clearReq
    /\ \E i \in 1..Len(detailsReqs), outcome \in {"ok", "nonok", "throws"},
          links \in ImageLinkSets :
         /\ outcome # "ok" => links = NoLinks
         /\ detailsReqs' = RemoveAt(detailsReqs, i)
         /\ bookDetails' = IF outcome = "ok" THEN Details(links) ELSE bookDetails
         /\ detailsTitle' = IF outcome = "ok" THEN detailsReqs[i] ELSE detailsTitle
         /\ last' = [Ran("DetailsHandle") EXCEPT !.req = detailsReqs[i], !.answer = outcome]
    /\ modalLoading' = FALSE
    /\ imageSrc' = IF selectedBook = NoBook THEN imageSrc
                   ELSE getBestAvailableImage(imageError, bookDetails', selectedBook.image)
    /\ UNCHANGED <<authVars, storeVars, location, loginVars, signupVars, mwVars,
                   screenVars, issuedToken, autoSearch, availableAuthors,
                   userPreferences, ls_userPreferences, rateReqs, browseVars,
                   selectedBook, userRating, imageError>>
    /\ Rendered

\* onLoad={() => setImageError(false)}
ImageLoaded ==
    /\ imageShown
    /\ imageLoad
    /\ UNCHANGED <<clearReq, detailsTitle, modalLoading>>
    /\ imageLoad' = FALSE
    /\ imageError' = FALSE
    /\ last' = Ran("onLoad")
    /\ UNCHANGED <<authVars, storeVars, location, loginVars, signupVars, mwVars,
                   screenVars, issuedToken, autoSearch, availableAuthors,
                   userPreferences, ls_userPreferences, rateReqs, browseVars,
                   selectedBook, bookDetails, detailsReqs, userRating, imageSrc, imageTried>>

\* bookquest-app's handleImageError: [imageSrc, imageError] it sets
appImageError(images, src) ==
    LET currentIndex == indexOf(ObjectValues(images), src)
        imageValues == SelectSeq(ObjectValues(images), Truthy)
    IN IF images.present /\ Truthy(src) /\ currentIndex < Len(imageValues) - 1
       THEN [imageSrc |-> imageValues[currentIndex + 2], imageError |-> FALSE]
       ELSE [imageSrc |-> NULL, imageError |-> TRUE]

\* onError of the cover: the source on screen failed to load. The frontend Modal
\* records the error; the bookquest-app Modal runs handleImageError
handleImageError ==
    /\ imageShown
    /\ imageLoad
    /\ UNCHANGED <<clearReq, detailsTitle, modalLoading>>
    /\ LET set == IF homeVariant = "app"
                  THEN appImageError(bookDetails.imageLinks, imageSrc)
                  ELSE [imageSrc |-> NULL, imageError |-> TRUE]
       IN /\ imageSrc' = IF set.imageError   \* the error re-runs the source effect
                         THEN getBestAvailableImage(TRUE, bookDetails, selectedBook.image)
                         ELSE set.imageSrc
          /\ imageError' = set.imageError
          /\ imageLoad' = (~set.imageError /\ set.imageSrc # imageSrc)
          /\ imageTried' = IF set.imageError THEN imageTried
                           ELSE imageTried \cup {set.imageSrc}
    /\ last' = Ran("handleImageError")
    /\ UNCHANGED <<authVars, storeVars, location, loginVars, signupVars, mwVars,
                   screenVars, issuedToken, autoSearch, availableAuthors,
                   userPreferences, ls_userPreferences, rateReqs, browseVars,
                   selectedBook, bookDetails, detailsReqs, userRating>>

\* The close button, Escape or the backdrop: the Modal unmounts; BrowseContent
\* also pushes /browse
closeModal ==
    /\ selectedBook # NoBook
    /\ UNCHANGED clearReq
    /\ IF screen = "Browse" /\ ~pushKeepsPage(P_browse)
       THEN PushedAway("closeModal", P_browse)
       ELSE /\ selectedBook' = NoBook
            /\ bookDetails' = NoDetails
            /\ detailsTitle' = NULL
            /\ userRating' = 0
            /\ imageSrc' = NULL
            /\ imageError' = FALSE
            /\ imageLoad' = FALSE
            /\ imageTried' = {}
            /\ IF screen = "Browse" THEN PushedSame(P_browse)
               ELSE UNCHANGED <<mwRequest, mwResponse, location>>
            /\ last' = Ran("closeModal")
            /\ UNCHANGED <<authVars, storeVars, loginVars, signupVars, mwVariant,
                           screenVars, issuedToken, autoSearch, availableAuthors,
                           userPreferences, ls_userPreferences, rateReqs, browseVars,
                           detailsReqs, modalLoading>>

-----------------------------------------------------------------------------
(* ProtectedRoute, taken to wrap the pages under the protected prefixes *)

Placeholder == "Authenticating..."

\* A guard that looks at isAuthenticated before loading
ProtectedRouteAuthenticatedFirst(loading, authenticated) ==
    IF ~authenticated THEN "null"
    ELSE IF loading THEN Placeholder
    ELSE "children"

\* What ProtectedRoute returns
ProtectedRoute(loading, authenticated) ==
    IF loading THEN Placeholder
    ELSE IF ~authenticated THEN "null"
    ELSE "children"

\* What the guard of the page on screen shows
guardShows == ProtectedRoute(auth_loading, isAuthenticated)

\* useEffect(() => { if (!loading && !isAuthenticated) router.push('/login') })
protectedRouteEffect ==
    /\ isProtectedPath(location.path)
    /\ ~auth_loading
    /\ ~isAuthenticated
    /\ PushedAway("ProtectedRoute", P_login)

-----------------------------------------------------------------------------
(* Rating a book from the modal *)

MaxRates == 1
Ratings == {3, 5}

RateLoginText == "Please login to rate books"
RateFailedText == "Failed to rate book. Please try again."

\* { ...userPreferences, [book.title]: rating }
withPreference(preferences, title, rating) == (title :> rating) @@ preferences

Rate(title, rating, bearer, preferences) ==
    [title |-> title, rating |-> rating, bearer |-> bearer, preferences |-> preferences]

\* Home.rateBook up to its await: nothing is sent without a stored token
homeRateStart(rating) ==
    IF ~Truthy(ls_auth_token)
    THEN [send |-> FALSE, error |-> RateLoginText,
          request |-> Rate(selectedBook.title, rating, NULL, userPreferences)]
    ELSE [send |-> TRUE, error |-> home_error,
          request |-> Rate(selectedBook.title, rating, ls_auth_token, userPreferences)]

\* BrowseContent.rateBook up to its await: the request goes out with or without
\* the Authorization header
browseRateStart(rating) ==
    [send |-> TRUE, error |-> home_error,
     request |-> Rate(selectedBook.title, rating, bearerOf(ls_auth_token), userPreferences)]

\* A star of the modal: onRate(rating)
rateBook ==
    /\ screen \in {"Home", "Browse"}
    /\ ~crashed
    /\ selectedBook # NoBook
    /\ Len(rateReqs) < MaxRates
    /\ \E rating \in Ratings :
         LET start == IF screen = "Home" THEN homeRateStart(rating)
                      ELSE browseRateStart(rating)
         IN /\ home_error' = start.error
            /\ rateReqs' = IF start.send THEN Append(rateReqs, start.request) ELSE rateReqs
            /\ last' = RanSending("rateBook",
                   IF start.send
                   THEN ProtectedReq("POST", "/api/rate", start.request.bearer)
                   ELSE NoProtectedReq)
    /\ UNCHANGED <<authVars, storeVars, location, loginVars, signupVars, mwVars,
                   homeVariant, favorites, favReq, toggleReqs, fav_loading, crashed,
                   healthReq, genresReq, availableGenres, searchVars, issuedToken,
                   autoSearch, availableAuthors, userPreferences, ls_userPreferences,
                   selectedBook, bookDetails, detailsReqs, detailsTitle, modalLoading,
                   userRating, imageVars, browseVars, clearReq>>

\* The answer to a POST /api/rate in flight arrives
RateHandle ==
    /\ screen \in {"Home", "Browse"}
    /\ ~crashed
    /\ \E i \in 1..Len(rateReqs), status \in {"ok", "nonok", "throws"} :
         LET r == rateReqs[i] IN
         /\ rateReqs' = RemoveAt(rateReqs, i)
         /\ last' = [Ran("RateHandle") EXCEPT !.req = r, !.answer = status]
         /\ IF screen = "Home"
            THEN IF status = "ok"
                 THEN /\ userRating' = r.rating
                      /\ userPreferences' = withPreference(r.preferences, r.title, r.rating)
                      /\ ls_userPreferences' = JSONstringify(userPreferences')
                      /\ UNCHANGED home_error
                 ELSE /\ home_error' = RateFailedText
                      /\ UNCHANGED <<userRating, userPreferences, ls_userPreferences>>
            ELSE \* BrowseContent: the rating is set unless fetch rejected
                 /\ userRating' = IF status # "throws" THEN r.rating ELSE userRating
                 /\ UNCHANGED <<home_error, userPreferences, ls_userPreferences>>
    /\ UNCHANGED <<authVars, storeVars, location, loginVars, signupVars, mwVars,
                   homeVariant, favorites, favReq, toggleReqs, fav_loading, crashed,
                   healthReq, genresReq, availableGenres, searchVars, issuedToken,
                   autoSearch, availableAuthors, selectedBook, bookDetails, detailsReqs,
                   detailsTitle, modalLoading, imageVars, browseVars, clearReq>>

-----------------------------------------------------------------------------
(* BrowseContent: the popular, random and per-genre lists *)

\* Answers of the list endpoints: an array; an object; null; no JSON; a non-OK
\* status; a rejected fetch
BookListAnswers ==
    {[status |-> "ok", shape |-> "array", items |-> it] : it \in {<<>>, <<B_dune>>}}
    \cup {[status |-> "ok", shape |-> sh, items |-> <<>>] :
            sh \in {"object", "null", "notjson"}}
    \cup {[status |-> st, shape |-> "none", items |-> <<>>] : st \in {"nonok", "throws"}}

\* The body handed on as it came
asReceived(a) == IF a.shape = "array" THEN Arr(a.items) ELSE NonArr(a.shape)

\* Array.isArray(x) ? x : []
orEmptyArray(a) == IF a.shape = "array" THEN Arr(a.items) ELSE Arr(<<>>)

\* fetchBooks after Promise.all settled: [popular, random]. Both json() calls and
\* both .length reads come before the setters, so a body that is not JSON or is
\* null throws into the catch.
fetchBooks(popular, random) ==
    LET empty == [popular |-> Arr(<<>>), random |-> Arr(<<>>)] IN
    IF popular.status = "throws" \/ random.status = "throws" THEN empty
    ELSE IF popular.status = "ok" /\ random.status = "ok"
    THEN IF {popular.shape, random.shape} \cap {"notjson", "null"} # {} THEN empty
         ELSE [popular |-> orEmptyArray(popular), random |-> orEmptyArray(random)]
    ELSE empty

BooksHandle ==
    /\ screen = "Browse"
    /\ booksReq = "sent"
    /\ \E popular \in BookListAnswers, random \in BookListAnswers :
         /\ popularBooks' = fetchBooks(popular, random).popular
         /\ randomBooks' = fetchBooks(popular, random).random
         /\ last' = [Ran("fetchBooks") EXCEPT !.answer = <<popular, random>>]
    /\ booksReq' = "done"
    /\ browse_loading' = FALSE
    /\ UNCHANGED <<authVars, storeVars, location, loginVars, signupVars, mwVars,
                   screenVars, issuedToken, autoSearch, availableAuthors,
                   userPreferences, ls_userPreferences, modalVars, imageVars, clearReq,
                   browse_filteredBooks, selectedGenre, browse_availableGenres,
                   browseGenresReq, genreBooksReqs>>

\* Answers of GET /api/genres: the list under `genres`; a non-array there; no
\* such member; null; no JSON; a non-OK status; a rejected fetch
GenreListAnswers ==
    {[status |-> "ok", shape |-> sh] :
        sh \in {"named", "scalar", "object", "null", "notjson"}}
    \cup {[status |-> st, shape |-> "none"] : st \in {"nonok", "throws"}}

\* fetchGenres after its fetch settled
fetchGenres(a) ==
    IF a.status = "ok" /\ a.shape \notin {"null", "notjson"}
    THEN IF a.shape = "named" THEN Arr(<<G_scifi>>) ELSE Arr(<<>>)
    ELSE browse_availableGenres

BrowseGenresHandle ==
    /\ screen = "Browse"
    /\ browseGenresReq = "sent"
    /\ \E a \in GenreListAnswers :
         /\ browse_availableGenres' = fetchGenres(a)
         /\ last' = [Ran("fetchGenres") EXCEPT !.answer = a]
    /\ browseGenresReq' = "done"
    /\ UNCHANGED <<authVars, storeVars, location, loginVars, signupVars, mwVars,
                   screenVars, issuedToken, autoSearch, availableAuthors,
                   userPreferences, ls_userPreferences, modalVars, imageVars, clearReq,
                   popularBooks, randomBooks, browse_filteredBooks, selectedGenre,
                   browse_loading, booksReq, genreBooksReqs>>

\* The genre buttons: handleGenreChange(genre), with fetchBooksByGenre up to its
\* await
handleGenreChange ==
    /\ screen = "Browse"
    /\ Len(genreBooksReqs) < MaxInflight
    /\ \E genre \in {All} \cup {browse_availableGenres.items[i] :
                                  i \in 1..Len(browse_availableGenres.items)} :
         /\ selectedGenre' = genre
         /\ IF genre = All
            THEN /\ browse_filteredBooks' = Arr(<<>>)
                 /\ UNCHANGED <<browse_loading, genreBooksReqs>>
            ELSE /\ browse_loading' = TRUE
                 /\ genreBooksReqs' = Append(genreBooksReqs, genre)
                 /\ UNCHANGED browse_filteredBooks
    /\ last' = Ran("handleGenreChange")
    /\ UNCHANGED <<authVars, storeVars, location, loginVars, signupVars, mwVars,
                   screenVars, issuedToken, autoSearch, availableAuthors,
                   userPreferences, ls_userPreferences, modalVars, imageVars, clearReq,
                   popularBooks, randomBooks, booksReq, browse_availableGenres,
                   browseGenresReq>>

\* fetchBooksByGenre after its fetch settled: the list is set before books.length
\* is read, and the catch sets it again
fetchBooksByGenre(a) ==
    IF a.status = "ok" /\ a.shape \notin {"notjson", "null"}
    THEN orEmptyArray(a)
    ELSE Arr(<<>>)

GenreBooksHandle ==
    /\ screen = "Browse"
    /\ \E i \in 1..Len(genreBooksReqs), a \in BookListAnswers :
         /\ genreBooksReqs' = RemoveAt(genreBooksReqs, i)
         /\ browse_filteredBooks' = fetchBooksByGenre(a)
         /\ last' = [Ran("fetchBooksByGenre") EXCEPT !.answer = a]
    /\ browse_loading' = FALSE
    /\ UNCHANGED <<authVars, storeVars, location, loginVars, signupVars, mwVars,
                   screenVars, issuedToken, autoSearch, availableAuthors,
                   userPreferences, ls_userPreferences, modalVars, imageVars, clearReq,
                   popularBooks, randomBooks, selectedGenre, booksReq,
                   browse_availableGenres, browseGenresReq>>

-----------------------------------------------------------------------------
(* The auth session: provider, forms and middleware *)

InitAuthSession ==
    /\ cookie \in StoredTokens
    /\ ls_auth_user \in StoredUsers
    /\ ls_auth_token = NULL
    /\ authVariant \in AuthVariants
    /\ mwVariant \in MwVariants
    /\ \E pathname \in {P_root, P_login, P_signup} :
         /\ mwRequest = [pathname |-> pathname, token |-> cookie]
         /\ mwResponse = Serve(mwVariant, pathname, cookie)
         /\ location = Land(mwVariant, pathname, cookie)
    /\ user = NULL
    /\ token = NULL
    /\ auth_loading = TRUE
    /\ authPc = "start"
    /\ verifyReq = NoReq
    /\ login_loading = FALSE
    /\ login_error = ""
    /\ loginReq = NoReq
    /\ formData = EmptyForm
    /\ signup_loading = FALSE
    /\ signup_error = ""
    /\ signupReq = NoReq
    /\ last = RanSending("PageLoad", mountRequest(screen))
    /\ issuedToken = NULL
    /\ homeVariant = "frontend"
    /\ ls_recentSearches = NoEntry
    /\ ls_userPreferences = NoEntry
    /\ Mounted(screen)

NextAuth ==
    \/ InitAuth
    \/ VerifyRespond
    \/ VerifyHandle
    \/ Logout
    \/ LoginSubmit
    \/ LoginHandle
    \/ SignupChange
    \/ SignupSubmit
    \/ SignupHandle
    \/ PageLoad
    \/ CookieExpire

SpecAuth == InitAuthSession /\ [][NextAuth]_vars

\* One page lifetime (no document request): a settled fetch always gets its
\* continuation run by the event loop
NextAuthPage ==
    \/ InitAuth
    \/ VerifyRespond
    \/ VerifyHandle
    \/ Logout
    \/ LoginSubmit
    \/ LoginHandle
    \/ SignupChange
    \/ SignupSubmit
    \/ SignupHandle
    \/ CookieExpire

SpecAuthLive ==
    /\ InitAuthSession
    /\ [][NextAuthPage]_vars
    /\ WF_vars(InitAuth)
    /\ WF_vars(VerifyHandle)

\* One page lifetime in which, besides, every fetch settles: the backend answers
\* or the network fails
SpecAuthSettles ==
    /\ InitAuthSession
    /\ [][NextAuthPage]_vars
    /\ WF_vars(InitAuth)
    /\ WF_vars(VerifyRespond)
    /\ WF_vars(VerifyHandle)

-----------------------------------------------------------------------------
(* A session on the screens: log in, follow the links, manage favorites *)

\* First document request of a browser without a session. localStorage
\* 'auth_token' is written by none of these sources: it is absent, or holds what
\* something else left there.
InitSession ==
    /\ cookie = NULL
    /\ ls_auth_user = NULL
    /\ ls_auth_token \in {NULL, "t0"}
    /\ ls_recentSearches = NoEntry
    /\ authVariant = "tryFinally"
    /\ mwVariant = "basic"
    /\ homeVariant \in HomeVariants
    /\ mwRequest = [pathname |-> P_login, token |-> cookie]
    /\ mwResponse = Serve(mwVariant, P_login, cookie)
    /\ location = Land(mwVariant, P_login, cookie)
    /\ user = NULL
    /\ token = NULL
    /\ auth_loading = TRUE
    /\ authPc = "start"
    /\ verifyReq = NoReq
    /\ login_loading = FALSE
    /\ login_error = ""
    /\ loginReq = NoReq
    /\ formData = EmptyForm
    /\ signup_loading = FALSE
    /\ signup_error = ""
    /\ signupReq = NoReq
    /\ issuedToken = NULL
    /\ ls_userPreferences = NoEntry
    /\ Mounted(screen)
    /\ last = RanSending("PageLoad", mountRequest(screen))

NextSession ==
    \/ InitAuth
    \/ LoginSubmit
    \/ LoginHandle
    \/ Logout
    \/ LinkClick
    \/ FetchFavoritesHandle
    \/ toggleFavorite
    \/ ToggleHandle

SpecSession == InitSession /\ [][NextSession]_vars

\* A browser that kept the cookie and the user of an earlier login requests
\* /favorites
InitReturningAt(pathname, storedToken) ==
    /\ cookie = "t0"
    /\ ls_auth_user = JSONstringify("u0")
    /\ ls_auth_token = storedToken
    /\ ls_recentSearches = NoEntry
    /\ authVariant = "tryFinally"
    /\ mwVariant = "basic"
    /\ homeVariant \in HomeVariants
    /\ mwRequest = [pathname |-> pathname, token |-> cookie]
    /\ mwResponse = Serve(mwVariant, pathname, cookie)
    /\ location = Land(mwVariant, pathname, cookie)
    /\ user = NULL
    /\ token = NULL
    /\ auth_loading = TRUE
    /\ authPc = "start"
    /\ verifyReq = NoReq
    /\ login_loading = FALSE
    /\ login_error = ""
    /\ loginReq = NoReq
    /\ formData = EmptyForm
    /\ signup_loading = FALSE
    /\ signup_error = ""
    /\ signupReq = NoReq
    /\ issuedToken = NULL
    /\ ls_userPreferences = NoEntry
    /\ Mounted(screen)
    /\ last = RanSending("PageLoad", mountRequest(screen))

InitReturning == InitReturningAt(P_favorites, NULL)

NextReturning ==
    \/ InitAuth
    \/ VerifyRespond
    \/ VerifyHandle
    \/ LinkClick
    \/ FetchFavoritesHandle
    \/ toggleFavorite
    \/ ToggleHandle

SpecReturning == InitReturning /\ [][NextReturning]_vars

\* The same browser on a guarded page: the session is verified, ends or is lost
NextGuarded ==
    \/ InitAuth
    \/ VerifyRespond
    \/ VerifyHandle
    \/ Logout
    \/ CookieExpire
    \/ PageLoad
    \/ FetchFavoritesHandle
    \/ protectedRouteEffect

SpecGuarded == InitReturning /\ [][NextGuarded]_vars

-----------------------------------------------------------------------------
(* The search screen: one visit of a browser without a session *)

\* The document request of "/" and the mount effects up to their awaits, with
\* localStorage 'recentSearches' as an earlier visit left it
InitHomeWith(recent, preferences, storedToken, searchParam) ==
    /\ cookie = NULL
    /\ ls_auth_user = NULL
    /\ ls_auth_token = storedToken
    /\ ls_recentSearches = recent
    /\ authVariant = "tryFinally"
    /\ mwVariant = "basic"
    /\ homeVariant \in HomeVariants
    /\ mwRequest = [pathname |-> P_root, token |-> cookie]
    /\ mwResponse = Serve(mwVariant, P_root, cookie)
    /\ location = Land(mwVariant, P_root, cookie)
    /\ user = NULL
    /\ token = NULL
    /\ auth_loading = FALSE
    /\ authPc = "done"
    /\ verifyReq = NoReq
    /\ login_loading = FALSE
    /\ login_error = ""
    /\ loginReq = NoReq
    /\ formData = EmptyForm
    /\ signup_loading = FALSE
    /\ signup_error = ""
    /\ signupReq = NoReq
    /\ issuedToken = NULL
    /\ ls_userPreferences = preferences
    /\ MountedWith(screen, searchParam)
    /\ last = Ran("InitAuth")

\* Searches from the search box, under the filter controls

InitHome(recent) == InitHomeWith(recent, NoEntry, NULL, NoParam)

InitSearch == \E recent \in {NoEntry, Malformed} : InitHome(recent)

NextSearch ==
    \/ GenresHandle
    \/ ChangeQuery
    \/ SetFilter
    \/ clearFilters
    \/ searchBooks
    \/ SearchHandle

SpecSearch == InitSearch /\ [][NextSearch]_vars

\* Searches from the buttons that are never disabled, while the mount's other
\* requests are answered
InitOverlap == \E recent \in {NoEntry, JSONstringify(<<G_scifi>>)} : InitHome(recent)

NextOverlap ==
    \/ HealthHandle
    \/ GenresHandle
    \/ SetSearchMode
    \/ handleSuggestionClick
    \/ searchByGenre
    \/ SearchHandle

SpecOverlap == InitOverlap /\ [][NextOverlap]_vars

\* The requests sent in every mode, from the search box and from the quick
\* buttons, up to the first answer, by a visitor whose browser may hold rated books
StoredPreferences == {NoEntry, JSONstringify("Dune" :> 7)}

InitModes ==
    \E preferences \in StoredPreferences : InitHomeWith(NoEntry, preferences, NULL, NoParam)

NextModes ==
    \/ GenresHandle
    \/ ChangeQuery
    \/ SetSearchMode
    \/ SetGenreOrAuthor
    \/ searchBooks
    \/ handleSuggestionClick
    \/ searchByGenre

SpecModes == InitModes /\ [][NextModes]_vars

\* The hearts of the search screen, in a browser whose localStorage holds a token
InitHearts == InitHomeWith(NoEntry, NoEntry, "t1", NoParam)

NextHearts ==
    \/ FetchFavoritesHandle
    \/ toggleFavorite
    \/ ToggleHandle

SpecHearts == InitHearts /\ [][NextHearts]_vars

\* The list is fetched first; then come clicks that may overlap
NextHeartsOverlap ==
    \/ FetchFavoritesHandle
    \/ toggleFavoriteOverlapping
    \/ ToggleHandle

SpecHeartsOverlap == InitHearts /\ [][NextHeartsOverlap]_vars

\* The detail modal of the search screen and its cover image
InitModal == InitHome(NoEntry)

NextModal ==
    \/ handleSuggestionClick
    \/ SearchHandle
    \/ openBookDetails
    \/ DetailsHandle
    \/ ImageLoaded
    \/ handleImageError
    \/ closeModal

SpecModal == InitModal /\ [][NextModal]_vars

\* The search screen opened from a link with ?search=, in a browser that may hold
\* recent searches
StoredSearches ==
    {NoEntry, JSONstringify(<<G_scifi>>), JSONstringify(<<G_scifi, <<"d">>>>)}
SearchParams == {<<"d", " ">>, G_scifi}

InitDeepLink ==
    \E recent \in StoredSearches, searchParam \in SearchParams :
        InitHomeWith(recent, NoEntry, NULL, searchParam)

NextDeepLink ==
    \/ AutoSearch
    \/ handleSuggestionClick
    \/ SearchHandle

SpecDeepLink == InitDeepLink /\ [][NextDeepLink]_vars

\* The lists filled from the backend: the browse screen of a returning visitor
\* who opens /browse, and the search screen
InitBrowse == \E storedToken \in {NULL, "t1"} : InitReturningAt(P_browse, storedToken)

InitLists == InitBrowse \/ InitHome(NoEntry)

NextLists ==
    \/ BooksHandle
    \/ BrowseGenresHandle
    \/ handleGenreChange
    \/ GenreBooksHandle
    \/ GenresHandle
    \/ handleSuggestionClick
    \/ SearchHandle

SpecLists == InitLists /\ [][NextLists]_vars

\* Rating from the modal, on the search screen and in BrowseContent, with and
\* without a token in localStorage
InitRating ==
    \/ InitBrowse
    \/ \E preferences \in StoredPreferences, storedToken \in {NULL, "t1"} :
         InitHomeWith(NoEntry, preferences, storedToken, NoParam)

NextRating ==
    \/ BooksHandle
    \/ handleSuggestionClick
    \/ SearchHandle
    \/ openBookDetails
    \/ rateBook
    \/ RateHandle
    \/ closeModal

SpecRating == InitRating /\ [][NextRating]_vars

-----------------------------------------------------------------------------
(* The Favorites screen: the list is fetched, books are removed one by one or *)
(* all at once                                                              *)
InitClear == InitReturningAt(P_favorites, NULL)

NextClear ==
    \/ FetchFavoritesHandle
    \/ toggleFavorite
    \/ ToggleHandle
    \/ clearAllFavorites
    \/ ClearHandle

SpecClear == InitClear /\ [][NextClear]_vars

-----------------------------------------------------------------------------
(* Properties of the auth session *)

SessionCleared ==
    /\ token = NULL
    /\ user = NULL
    /\ getCookie(cookie) = NULL
    /\ ls_auth_user = NULL

VerifyFailed == verifyReq.status \in {"nonok", "throws"}

\* C1: when the provider started from a stored cookie and a cached user and
\* /api/auth/verify answers not-OK or the fetch rejects, then eventually the
\* in-memory token and user are null, the auth_token cookie is gone and the
\* auth_user entry is removed.
C1_VerifyFailureLogsOut ==
    (authPc = "verifying" /\ verifyReq.state = "answered" /\ VerifyFailed)
        ~> SessionCleared

C1_Witness ==
    /\ last.op = "VerifyHandle"
    /\ VerifyFailed
    /\ SessionCleared

\* C2: a request whose path starts with /browse, /favorites or /profile and
\* that carries no auth_token cookie is answered by a redirect to /login with
\* redirectTo equal to the requested path, never passed through.
C2_ProtectedGate ==
    ( /\ \/ StartsWith(mwRequest.pathname, P_browse)
         \/ StartsWith(mwRequest.pathname, P_favorites)
         \/ StartsWith(mwRequest.pathname, P_profile)
      /\ mwRequest.token = NULL )
    => /\ mwResponse.kind = "redirect"
       /\ mwResponse.to = P_login
       /\ mwResponse.redirectTo = mwRequest.pathname

C2_Witness ==
    /\ mwRequest.pathname = P_profileEd
    /\ mwRequest.token = NULL
    /\ mwResponse.kind = "redirect"
    /\ location = [path |-> P_login, redirectTo |-> P_profileEd]

\* C6: submitting the signup form with password different from
\* confirmPassword sets the error to "Passwords do not match", leaves loading
\* false, sends no POST /api/auth/signup and does not navigate.
C6_MismatchStopsSignup ==
    [][ (last'.op = "SignupSubmit" /\ formData.password # formData.confirmPassword)
        => /\ signup_error' = "Passwords do not match"
           /\ signup_loading' = FALSE
           /\ signupReq' = signupReq
           /\ signupReq'.state # "sent"
           /\ location' = location ]_vars

C6_Witness ==
    /\ last.op = "SignupSubmit"
    /\ formData.password = Pw_six
    /\ formData.confirmPassword = Pw_seven
    /\ signup_error = "Passwords do not match"

\* C8: a login or signup answered OK stores the returned token in memory and
\* in the auth_token cookie and the returned user in memory and in auth_user,
\* so that right afterwards isAuthenticated holds and the cookie equals the
\* in-memory token.
AuthStored(req) ==
    /\ token = req.body.token
    /\ user = req.body.user
    /\ getCookie(cookie) = req.body.token
    /\ ls_auth_user = JSONstringify(req.body.user)
    /\ isAuthenticated
    /\ getCookie(cookie) = token

C8_SuccessStoresSession ==
    /\ (last.op = "LoginHandle" /\ loginReq.status = "ok") => AuthStored(loginReq)
    /\ (last.op = "SignupHandle" /\ signupReq.status = "ok") => AuthStored(signupReq)

C8_Witness ==
    /\ last.op = "LoginHandle"
    /\ loginReq.status = "ok"
    /\ isAuthenticated
    /\ cookie = "t2"

\* C9: a login or signup answered not-OK throws an error carrying the
\* backend's error text ("Login failed" / "Signup failed" when there is none)
\* and leaves token, user, cookie and auth_user unchanged; the page shows the
\* message, clears its loading flag and does not navigate.
BackendText(body, fallback) == IF body \in {NULL, ""} THEN fallback ELSE body

-----------------------------------------------------------------------------
(* Properties of the screens *)

\* C3: every request to a bearer-protected endpoint carries the token the most
\* recent successful login or signup issued; in particular a toggle on the search
\* screen after a login sends a favorites request with that token.
C3_RequestsCarryIssuedToken ==
    issuedToken # NULL =>
        /\ last.sent.method # NULL => last.sent.bearer = issuedToken
        /\ (last.op = "toggleFavorite" /\ screen = "Home") =>
               (last.sent.method # NULL /\ last.sent.bearer = issuedToken)

\* C4: a toggle while no auth token is stored sets the message "Please login to
\* manage favorites", sends no request and leaves the favorites as they are.
C4_NoTokenToggleRefused ==
    [][ (last'.op = "toggleFavorite" /\ screen \in {"Home", "Browse"}
         /\ ~Truthy(ls_auth_token))
        => /\ home_error' = "Please login to manage favorites"
           /\ last'.sent = NoProtectedReq
           /\ toggleReqs' = toggleReqs
           /\ favorites' = favorites ]_vars

\* C5: after a favorites fetch of the search screen or the Favorites screen whose
\* response body is not an array, favorites is the empty array and nothing threw.
C5_NonArrayBodyGivesEmptyList ==
    (/\ last.op = "fetchFavorites"
     /\ screen \in {"Home", "Favorites"}
     /\ favReq.status # "throws"
     /\ favReq.body # "array")
    => (favorites = Arr(<<>>) /\ ~crashed)

\* The books of a list that pass the filters
passing(variant, recommendations, f) ==
    SelectSeq(recommendations, LAMBDA book : meetsFilters(variant, book, f))

\* The search answer the last handler consumed held a non-empty list
NonEmptyListAnswered ==
    /\ last.op = "performSearch"
    /\ last.answer.status = "ok"
    /\ isArray(recommendationsOf(homeVariant, last.answer))
    /\ recommendationsOf(homeVariant, last.answer).items # <<>>

\* C7: when a search is answered with a non-empty list of recommendations and
\* none of them passes the filters, the books shown are the whole list and the
\* message is "Your current filters were too restrictive. Showing all results.";
\* when at least one passes, the books shown are exactly those that pass and the
\* message is empty.
C7_FilterFallback ==
    NonEmptyListAnswered =>
        LET recs == recommendationsOf(homeVariant, last.answer).items
            kept == passing(homeVariant, recs, last.req.filters)
        IN IF kept = <<>>
           THEN books = recs /\ home_error = Restrictive
           ELSE books = kept /\ home_error = ""

C7_Witness ==
    /\ NonEmptyListAnswered
    /\ passing(homeVariant, last.answer.items, last.req.filters) = <<>>
    /\ books = <<B_dune, B_emma>>
    /\ home_error = Restrictive

\* C10: loading is true whenever a search is outstanding, and false when none is.
C10_LoadingWhileOutstanding ==
    home_loading <=> (searchReqs # <<>>)

\* C11: nothing cancels a superseded search: the continuation of every search
\* shows the outcome of its own answer, also when a later search has been
\* started and answered meanwhile; so the books of the earlier search can end up
\* under the query and mode of the later one.
C11_StaleAnswerApplied ==
    last.op = "performSearch" =>
        LET out == searchOutcome(homeVariant, last.answer, last.req.filters)
        IN /\ out.setBooks => books = out.books
           /\ home_error = out.error

\* The genre search was started first and answered last: its books are shown
\* under the query and mode of the suggestion clicked after it
C11_Witness ==
    /\ last.op = "performSearch"
    /\ last.req.query = G_scifi
    /\ last.req.mode = "genre"
    /\ query \in suggestions
    /\ searchMode = "title"
    /\ searchReqs = <<>>
    /\ books = last.answer.items
    /\ books # <<>>

-----------------------------------------------------------------------------
(* The request a search sends *)

\* The endpoint and request shape each mode stands for
RequestOfMode(mode, q, f, preferences) ==
    IF mode = "hybrid"
    THEN [method |-> "POST", url |-> <<"/api/recommend/hybrid", <<>>>>,
          body |-> <<[book_title |-> q,
                      genre |-> IF f.genre = All THEN <<>> ELSE f.genre,
                      author |-> f.author,
                      user_preferences |-> preferences]>>]
    ELSE [method |-> "GET",
          url |-> <<IF mode = "genre" THEN "/api/recommend/genre/"
                    ELSE IF mode = "author" THEN "/api/recommend/author/"
                    ELSE "/api/recommend?q=",
                    encodeURIComponent(q)>>,
          body |-> <<>>]

SearchOps == {"searchBooks", "handleSuggestionClick", "searchByGenre"}

\* The query and the mode a search handler passes to performSearch
PassedQuery == IF last'.op = "searchBooks" THEN query ELSE query'
PassedMode ==
    CASE last'.op = "searchBooks" -> searchMode
      [] last'.op = "handleSuggestionClick" -> "title"
      [] OTHER -> "genre"

\* C12: a search with a non-blank query sends exactly one request, whose endpoint
\* and shape are those of the mode passed to it (title, genre and author as GET
\* with the encoded query, hybrid as POST with book_title, genre ('' for 'all'),
\* author and user_preferences); a mode outside the four is treated as title; a
\* blank query sends nothing and changes no state; the quick buttons use the mode
\* they pass, whatever mode was selected before
C12_ModeSelectsRequest ==
    [][last'.op \in SearchOps =>
         /\ \A other \in {"", "fuzzy"} :
              searchRequest(PassedQuery, other, filters, userPreferences)
                = RequestOfMode("title", PassedQuery, filters, userPreferences)
         /\ IF trim(PassedQuery) = <<>>
            THEN UNCHANGED <<screenVars, extVars, ls_userPreferences>>
            ELSE /\ Len(searchReqs') = Len(searchReqs) + 1
                 /\ SubSeq(searchReqs', 1, Len(searchReqs)) = searchReqs
                 /\ searchReqs'[Len(searchReqs')].request
                      = RequestOfMode(PassedMode, PassedQuery, filters, userPreferences)]_vars

\* A suggestion is clicked while a hybrid search with a genre filter and stored
\* preferences is in flight, and goes to the title endpoint
C12_Witness ==
    /\ last.op = "handleSuggestionClick"
    /\ Len(searchReqs) = 2
    /\ searchReqs[1].request.method = "POST"
    /\ searchReqs[1].request.body[1].genre = G_scifi
    /\ DOMAIN searchReqs[1].request.body[1].user_preferences # {}
    /\ searchReqs[1].query = <<"d", " ">>
    /\ searchReqs[2].request.method = "GET"
    /\ searchReqs[2].request.url[1] = "/api/recommend?q="

-----------------------------------------------------------------------------
(* Failed backend calls *)

\* The handler that ran last consumed a failed answer: a rejected fetch or a
\* status that is not OK
FailedCallHandled ==
    \/ last.op = "fetchFavorites" /\ favReq.status # "ok"
    \/ last.op = "ToggleHandle" /\ last.answer # "ok"
    \/ last.op = "performSearch" /\ last.answer.status # "ok"

\* C13: after the handler of a failed backend call of the search, browse or
\* Favorites screen has run, the screen shows a message that is not empty.
C13_FailureShowsMessage == FailedCallHandled => home_error # ""

-----------------------------------------------------------------------------
(* Favorite membership on the search screen *)

UniqueTitles(items) ==
    \A i, j \in 1..Len(items) : items[i].title = items[j].title => i = j

UpdateFailedText == "Failed to update favorites. Please try again."

\* What the answer to a toggle of the search screen does to the list
ToggleAnswered ==
    (last'.op = "ToggleHandle" /\ screen = "Home" /\ Truthy(last'.req.bearer)) =>
        LET r == last'.req IN
        IF last'.answer = "ok"
        THEN /\ r.isFavorite = someTitle(r.snapshot, r.book.title)
             /\ someTitle(favorites'.items, r.book.title) = ~r.isFavorite
        ELSE /\ favorites' = favorites
             /\ home_error' = UpdateFailedText

\* C14: on the search screen with a stored token, an OK answer to a toggle flips
\* the membership of the book's title in the favorites (none with that title left
\* after a remove, one present after an add), any other answer leaves the list as
\* it was and sets "Failed to update favorites. Please try again.", and the list
\* never holds two entries with one title.
C14_MembershipByTitle ==
    /\ [](isArray(favorites) /\ UniqueTitles(favorites.items))
    /\ [][ToggleAnswered]_vars

\* The heart of a result titled Dune is clicked while the list holds another
\* record with that title, and the remove is answered OK
C14_Witness ==
    /\ last.op = "ToggleHandle"
    /\ last.answer = "ok"
    /\ last.req.book = B_dune_rerated
    /\ last.req.isFavorite
    /\ last.req.snapshot = <<B_emma, B_dune>>
    /\ favorites = Arr(<<B_emma>>)

-----------------------------------------------------------------------------
(* The post-filter of a search *)

\* The filter as stated: rating within the bounds, author filter empty or a
\* case-insensitive substring of the author, genre filter 'all' or a
\* case-insensitive substring of the genre, a book without genre passing
KeptAsStated(book, f) ==
    /\ f.minRating <= book.rating
    /\ book.rating <= f.maxRating
    /\ (f.author = <<>> \/ includes(toLowerCase(book.author), toLowerCase(f.author)))
    /\ \/ f.genre = All
       \/ book.genre = <<>>
       \/ includes(toLowerCase(book.genre), toLowerCase(f.genre))

\* C15: in both Home sources, when a search is answered with a list of which some
\* book passes the filter as stated (a book without genre passes the genre
\* filter), the books shown are exactly those that pass it.
C15_PostFilterAsStated ==
    NonEmptyListAnswered =>
        LET recs == recommendationsOf(homeVariant, last.answer).items
            stated == SelectSeq(recs, LAMBDA book : KeptAsStated(book, last.req.filters))
        IN stated # <<>> => books = stated

-----------------------------------------------------------------------------
(* The cover image of the detail modal *)

\* The non-empty values among the resolution fields of the details on screen
NonEmptyCandidates ==
    {bookDetails.imageLinks.fields[i].value : i \in 1..Len(bookDetails.imageLinks.fields)}
        \ {""}

\* C16: in the bookquest-app modal, the no-image state is shown only after every
\* non-empty resolution field has been given to the image, and a failed load
\* leaves either another source loading or the no-image state (imageError true,
\* imageSrc null), so that repeated failures end there.
C16_AllCandidatesTried ==
    (homeVariant = "app" /\ selectedBook # NoBook) =>
        /\ imageError => NonEmptyCandidates \subseteq imageTried
        /\ last.op = "handleImageError" =>
               \/ imageLoad /\ ~imageError
               \/ imageError /\ imageSrc = NULL

\* The value the chain is stated to return
StatedBest(imageErr, details, bookImage) ==
    LET own == IF bookImage # "" /\ bookImage # NULL THEN bookImage ELSE NULL
        filled == {i \in 1..Len(Resolutions) :
                     ImageOf(details.imageLinks, Resolutions[i]) # ""}
    IN IF imageErr THEN NULL
       ELSE IF ~details.loaded \/ ~details.imageLinks.present THEN own
       ELSE IF filled = {} THEN own
       ELSE ImageOf(details.imageLinks,
                    Resolutions[CHOOSE i \in filled : \A j \in filled : i <= j])

\* C17: whenever the modal has just computed its cover source (on opening, when
\* the details arrive, when an error is recorded), the source is null if an image
\* error is recorded, else the first non-empty of extraLarge, large, medium,
\* small, thumbnail, smallThumbnail, else the book's own image, else null; the
\* book's own image when the details have no imageLinks.
C17_BestAvailableImage ==
    (selectedBook # NoBook /\ (last.op \in {"openBookDetails", "DetailsHandle"} \/ imageError))
        => imageSrc = StatedBest(imageError, bookDetails, selectedBook.image)

\* The details list smallThumbnail before thumbnail; the larger one is chosen
C17_Witness ==
    /\ last.op = "DetailsHandle"
    /\ selectedBook # NoBook
    /\ bookDetails.imageLinks =
         Links(<<Field("smallThumbnail", "b"), Field("thumbnail", "a")>>)
    /\ selectedBook.image = "c"
    /\ imageSrc = "a"

-----------------------------------------------------------------------------
(* Lists filled from the backend *)

\* An answer that does not hold an array: another shape, a non-OK status, a
\* rejected fetch
NoArrayIn(a) == a.status # "ok" \/ a.shape # "array"

ListsAreArrays ==
    /\ isArray(popularBooks)
    /\ isArray(randomBooks)
    /\ isArray(browse_filteredBooks)
    /\ isArray(browse_availableGenres)
    /\ availableGenres \in Seq({G_scifi})
    /\ availableAuthors \in Seq({A_herbert})
    /\ books \in Seq(Books)

BadAnswerGivesEmptyArray ==
    /\ last.op = "fetchBooks" =>
         /\ NoArrayIn(last.answer[1]) => popularBooks = Arr(<<>>)
         /\ NoArrayIn(last.answer[2]) => randomBooks = Arr(<<>>)
    /\ (last.op = "fetchBooksByGenre" /\ NoArrayIn(last.answer)) =>
         browse_filteredBooks = Arr(<<>>)

AllGenresEmptiesList ==
    (last'.op = "handleGenreChange" /\ selectedGenre' = All) =>
        /\ browse_filteredBooks' = Arr(<<>>)
        /\ genreBooksReqs' = genreBooksReqs

\* C18: on the browse and search screens popularBooks, randomBooks, filteredBooks,
\* availableGenres, availableAuthors and books are arrays in every reachable
\* state; a popular, random or genre-books answer of another shape, with a non-OK
\* status or from a rejected fetch leaves its list the empty array; selecting
\* genre 'all' empties filteredBooks and sends no request.
C18_ListsStayArrays ==
    /\ [](ListsAreArrays /\ BadAnswerGivesEmptyArray)
    /\ [][AllGenresEmptiesList]_vars

\* The popular answer holds a list and the random answer an object
C18_Witness ==
    /\ last.op = "fetchBooks"
    /\ last.answer[1].shape = "array"
    /\ last.answer[2].shape = "object"
    /\ popularBooks = Arr(<<B_dune>>)
    /\ randomBooks = Arr(<<>>)

-----------------------------------------------------------------------------
(* The recent-search history *)

\* The query a search step passes on, the timer's search included
SearchedFor ==
    CASE last'.op = "searchBooks" -> query
      [] last'.op = "autoSearch" -> autoSearch
      [] OTHER -> query'

\* The search first, then the earlier searches without it, five at most
StatedHistory(before, search) ==
    LET all == <<search>> \o SelectSeq(before, LAMBDA h : h # search)
    IN [i \in 1..(IF Len(all) > 5 THEN 5 ELSE Len(all)) |-> all[i]]

\* C19: every search with a non-blank query, the one the ?search= parameter
\* starts at mount included, leaves the history as the trimmed query followed by
\* the history before the search without that query, cut to 5 entries, and the
\* recentSearches entry equal to it.
C19_HistoryKeepsEarlierSearches ==
    [][(last'.op \in SearchOps \cup {"autoSearch"} /\ trim(SearchedFor) # <<>>) =>
         /\ searchHistory' = StatedHistory(searchHistory, trim(SearchedFor))
         /\ ls_recentSearches' = JSONstringify(searchHistory')]_vars

-----------------------------------------------------------------------------
(* Rating a book *)

RatingState == <<userRating, userPreferences, ls_userPreferences>>

\* What a click on a star and the answer to its request do
RateStep ==
    /\ (last'.op = "rateBook" /\ ~Truthy(ls_auth_token)) =>
          /\ home_error' = RateLoginText
          /\ last'.sent = NoProtectedReq
          /\ rateReqs' = rateReqs
    /\ last'.op = "rateBook" => UNCHANGED RatingState
    /\ last'.op = "RateHandle" =>
          IF last'.answer = "ok"
          THEN /\ userRating' = last'.req.rating
               /\ userPreferences'[last'.req.title] = last'.req.rating
               /\ ls_userPreferences' = JSONstringify(userPreferences')
          ELSE /\ home_error' = RateFailedText
               /\ UNCHANGED RatingState

\* C20: rateBook changes the rating and the preferences, in memory and in the
\* userPreferences entry alike, only when POST /api/rate was answered OK; with no
\* stored token it sets "Please login to rate books" and sends nothing; on any
\* other answer it sets "Failed to rate book. Please try again." and leaves
\* rating and preferences as they were.
C20_RateOnlyAfterOk == [][RateStep]_vars

-----------------------------------------------------------------------------
(* C21 *)

TitlesOf(items) == [i \in 1..Len(items) |-> items[i].title]

\* One step of clearAllFavorites as stated
ClearAllStep ==
    /\ last'.op = "clearAllFavorites" =>
         IF last'.answer = "declined"
         THEN /\ last'.sent = NoProtectedReq
              /\ UNCHANGED <<favorites, clearReq>>
         ELSE /\ last'.sent = DeleteFavorite
              /\ clearReq'.issued = <<favorites.items[1].title>>
              /\ UNCHANGED favorites
    /\ last'.op = "ClearHandle" =>
         CASE last'.answer = "throws" ->
                /\ last'.sent = NoProtectedReq
                /\ clearReq'.state = "none"
                /\ UNCHANGED favorites
           [] clearReq.issued = TitlesOf(clearReq.snapshot) ->
                /\ last'.sent = NoProtectedReq
                /\ favorites' = Arr(<<>>)
           [] OTHER ->
                /\ last'.sent = DeleteFavorite
                /\ clearReq'.issued = SubSeq(TitlesOf(clearReq.snapshot), 1,
                                             Len(clearReq.issued) + 1)
                /\ UNCHANGED favorites

\* C21: clearAllFavorites, once confirmed, issues one DELETE per favorite, one
\* after the other, and empties the local list only after a DELETE has gone out
\* for every favorite; when a request throws midway the remaining DELETEs are not
\* issued and the local list is left as it was; when the confirmation is
\* declined nothing is requested and nothing changes.
C21_ClearAllOrNothing == [][ClearAllStep]_vars

\* A request of the loop threw with a favorite still to delete
C21_Witness ==
    /\ last.op = "ClearHandle"
    /\ last.answer = "throws"
    /\ Len(last.req.issued) < Len(last.req.snapshot)
    /\ favorites.items = last.req.snapshot
    /\ clearReq = NoClear

-----------------------------------------------------------------------------
(* C22, C23 *)

InitFinished == authPc = "done" /\ ~auth_loading

\* C22: once AuthProvider's initialization has finished (loading false), an
\* unauthenticated client (in-memory user or token null) holds no auth_token
\* cookie, whatever cookie and cached auth_user it started from; so the
\* middleware lets it through to /login and /signup.
C22_UnauthenticatedHasNoCookie ==
    (InitFinished /\ (user = NULL \/ token = NULL)) =>
        /\ ~Truthy(getCookie(cookie))
        /\ Land(mwVariant, P_login, getCookie(cookie)).path = P_login
        /\ Land(mwVariant, P_signup, getCookie(cookie)).path = P_signup

\* C23: AuthProvider's loading flag starts true and becomes false on every
\* initialization path; it never stays true forever.
C23_LoadingEnds == <>(~auth_loading)

-----------------------------------------------------------------------------
(* C24 *)

TitleSet(items) == {items[i].title : i \in 1..Len(items)}

\* The answer to a toggle changes the list by the acknowledged title and by
\* nothing else
ToggleAckStep ==
    (last'.op = "ToggleHandle" /\ screen = "Home") =>
        LET r == last'.req
            before == TitleSet(favorites.items)
            after == TitleSet(favorites'.items)
        IN IF last'.answer = "ok"
           THEN after = IF r.isFavorite THEN before \ {r.book.title}
                        ELSE before \cup {r.book.title}
           ELSE after = before

\* C24: on the search screen, after any interleaving of favorite toggles (two
\* toggles for distinct books whose requests overlap included), the local list
\* holds exactly the titles whose add the backend acknowledged and whose removal
\* it has not acknowledged since: every acknowledged add or remove changes the
\* list by its own title and keeps the others.
C24_NoAcknowledgedToggleLost == [][ToggleAckStep]_vars

-----------------------------------------------------------------------------
(* C25 *)

\* A request for the selected book is in flight
SelectedOutstanding ==
    \E i \in 1..Len(detailsReqs) : detailsReqs[i] = selectedBook.title

\* C25: in every reachable state non-null bookDetails are the response fetched
\* for the currently selected book: after closeModal they stay null until another
\* book is opened, a late response for a book opened earlier never fills or
\* replaces them, and while a book is selected modalLoading is true exactly
\* while the request for that book is outstanding.
C25_DetailsOfSelectedBook ==
    /\ bookDetails # NoDetails =>
          /\ selectedBook # NoBook
          /\ detailsTitle = selectedBook.title
    /\ selectedBook # NoBook => (modalLoading <=> SelectedOutstanding)

-----------------------------------------------------------------------------
(* C26 *)

\* The answer to removeFavorite's DELETE changes the list as stated
RemoveAnsweredStep ==
    (last'.op = "ToggleHandle" /\ screen = "Favorites") =>
        IF last'.answer = "ok"
        THEN favorites' = Arr(withoutTitle(last'.req.snapshot, last'.req.book.title))
        ELSE UNCHANGED favorites

\* C26: on the Favorites screen removeFavorite takes the book off the local list
\* only when DELETE /api/favorites was answered OK; a non-OK response or a
\* thrown error leaves the local list unchanged.
C26_RemoveOnlyAfterOk == [][RemoveAnsweredStep]_vars

-----------------------------------------------------------------------------
(* C27 *)

GuardAsStated ==
    /\ guardShows = "children" <=> (~auth_loading /\ isAuthenticated)
    /\ auth_loading => guardShows = Placeholder
    /\ (~auth_loading /\ ~isAuthenticated) => guardShows = "null"
    /\ (isProtectedPath(location.path) /\ ~auth_loading /\ ~isAuthenticated)
          => ENABLED protectedRouteEffect

GuardPushesLogin ==
    last'.op = "ProtectedRoute" =>
        /\ ~auth_loading /\ ~isAuthenticated
        /\ mwRequest'.pathname = P_login

\* C27: ProtectedRoute renders its children only when loading is false and
\* isAuthenticated is true; while loading is true (the startup verification
\* pending included) it renders only the 'Authenticating...' placeholder; when
\* loading is false and isAuthenticated is false it renders nothing and
\* navigates to /login.
C27_GuardRendersChildrenOnlyAuthenticated == []GuardAsStated /\ [][GuardPushesLogin]_vars

\* The guard sent the browser to /login after a failed verification
C27_Witness ==
    /\ last.op = "ProtectedRoute"
    /\ mwRequest.pathname = P_login
    /\ verifyReq.status \in {"nonok", "throws"}
    /\ ~isAuthenticated

-----------------------------------------------------------------------------
(* C28 *)

\* The page is where the browser landed for the last request
RedirectedToLogin ==
    (matcher(mwRequest.pathname) /\ isProtectedPath(mwRequest.pathname)
        /\ ~Truthy(mwRequest.token) /\ last.op \in {"PageLoad", "LinkClick"}) =>
        /\ mwResponse.kind = "redirect"
        /\ mwResponse.to = P_login
        /\ mwResponse.redirectTo = mwRequest.pathname
        /\ location.path = P_login
        /\ location.redirectTo = mwRequest.pathname

LoginReturns ==
    (last'.op = "LoginHandle" /\ loginReq'.status = "ok") =>
        LET P == IF location.redirectTo = NULL THEN P_browse ELSE location.redirectTo IN
        /\ Truthy(getCookie(cookie'))
        /\ mwRequest' = [pathname |-> P, token |-> getCookie(cookie')]
        /\ mwResponse'.kind = "next"
        /\ location'.path = P

\* C28: a request without auth_token cookie to a protected path P is redirected
\* to /login?redirectTo=P, and a successful login on that page replaces the
\* location with P (with /browse when there is no redirectTo parameter); the
\* cookie being set before the navigation, the middleware passes the request to
\* P through.
C28_LoginRoundTrip == []RedirectedToLogin /\ [][LoginReturns]_vars

\* The login came back to the protected page first asked for
C28_Witness ==
    /\ last.op = "LoginHandle"
    /\ loginReq.status = "ok"
    /\ loginReq.ctx = P_favorites
    /\ location.path = P_favorites
    /\ mwResponse.kind = "next"

-----------------------------------------------------------------------------
(* C29, C30 *)

\* Redirects the browser follows from pathname with the cookie unchanged, counted
\* up to fuel
RECURSIVE Hops(_, _, _, _)
Hops(variant, pathname, tokenCookie, fuel) ==
    LET r == Serve(variant, pathname, tokenCookie) IN
    IF r.kind = "redirect" /\ fuel > 0
    THEN 1 + Hops(variant, r.to, tokenCookie, fuel - 1)
    ELSE 0

\* C29: for a fixed cookie state, following the middleware's redirects ends
\* after at most one redirect: the target of every redirect it issues (/browse
\* with a token, /login without) is itself passed through, no path is both a
\* protected path and an auth path, and a path with neither prefix is always
\* passed through.
C29_AtMostOneRedirect ==
    LET pathname == mwRequest.pathname
        tokenCookie == mwRequest.token
    IN /\ Hops(mwVariant, pathname, tokenCookie, MaxRedirects) <= 1
       /\ mwResponse.kind = "redirect" =>
             /\ mwResponse.to = IF Truthy(tokenCookie) THEN P_browse ELSE P_login
             /\ Serve(mwVariant, mwResponse.to, tokenCookie).kind = "next"
       /\ ~(isProtectedPath(pathname) /\ isAuthPath(pathname))
       /\ (~isProtectedPath(pathname) /\ ~isAuthPath(pathname)) => mwResponse.kind = "next"

\* Both kinds of redirect have been issued and followed
C29_Witness ==
    /\ mwRequest.pathname = P_loginSub
    /\ Truthy(mwRequest.token)
    /\ mwResponse.kind = "redirect"
    /\ location.path = P_browse

\* C30: every request whose path starts with /login or /signup and that carries
\* a non-empty auth_token cookie is answered by a redirect to /browse, whether or
\* not the backend still accepts the token; the check comes before the one for
\* protected paths.
C30_AuthPagesClosedWithCookie ==
    ( /\ \/ StartsWith(mwRequest.pathname, P_login)
         \/ StartsWith(mwRequest.pathname, P_signup)
      /\ mwRequest.token \notin {NULL, ""} )
    => /\ mwResponse.kind = "redirect"
       /\ mwResponse.to = P_browse

\* A cookie that gives no session still closes the signup page
C30_Witness ==
    /\ mwRequest.pathname = P_signup
    /\ mwRequest.token = "t0"
    /\ authPc = "done"
    /\ ~isAuthenticated
    /\ mwResponse.kind = "redirect"
    /\ mwResponse.to = P_browse

====
